---- MODULE Spec2Model ----
(***************************************************************************)
(* Model of the expression IR of the decompiler (db/exp.cpp): the Exp      *)
(* class hierarchy as tree values, the value protocol (clone, operator==,  *)
(* operator<, search), the simplifier (polySimplify / simplify) and the    *)
(* binary serializer.  Trees are records                                   *)
(*     [cls, op, val, kids]                                                *)
(* where cls is the dynamic class of the node (it selects the virtual      *)
(* function that runs), op the OPER tag, val the payload (int of a Const,  *)
(* type handle contents of a TypedExp, size of an AssignExp, RTL of a      *)
(* FlagDef) and kids the sequence subExp1..subExp3.                        *)
(***************************************************************************)
EXTENDS Integers, Sequences, FiniteSets, TLC

VARIABLES
    pc,      \* position of the caller: which operation ran last
    x,       \* the expression the operation is applied to
    y,       \* second operand (other side of a comparison, search pattern)
    z,       \* third operand (transitivity)
    res,     \* the expression returned by the last operation
    bMod,    \* Exp::simplify's local flag
    passes,  \* number of polySimplify passes made by the running simplify
    first,   \* result of the first simplify run
    fatal,   \* an assert(0) / trap was hit
    out,     \* other results: match list, byte stream
    heap,    \* the free store: cells of Exp, Type and RTL objects by address
    xp,      \* address of the root of x on the heap
    yp       \* address of the root of the clone on the heap

vars == <<pc, x, y, z, res, bMod, passes, first, fatal, out, heap, xp, yp>>

-----------------------------------------------------------------------------
(* Bounds of the model *)

\* integer constants of generated expressions range over -MaxK .. MaxK
MaxK == 1
\* registers r[0] .. r[NumRegs-1] appear as leaves
NumRegs == 2

-----------------------------------------------------------------------------
(* The C++ int *)

IntMax == 2147483647
IntMin == -IntMax - 1

\* two's complement wrap-around of a + b, computed without leaving 32 bits
AddW(a, b) ==
    IF a > 0 /\ b > 0 /\ a > IntMax - b
      THEN (a - IntMax - 1) + (b - IntMax - 1)
      ELSE IF a < 0 /\ b < 0 /\ a < IntMin - b
             THEN (a + IntMax + 1) + (b + IntMax + 1)
             ELSE a + b

NegW(a) == IF a = IntMin THEN IntMin ELSE -a

SubW(a, b) == AddW(a, NegW(b))

\* a * b modulo 2^32 on 16-bit limbs, so that no intermediate value leaves
\* 32 bits: a = ah * 2^16 + al, b = bh * 2^16 + bl
MulW(a, b) ==
    LET al == a % 65536
        ah == a \div 65536
        bl == b % 65536
        bh == b \div 65536
        wrap16(v) == ((v + 32768) % 65536) - 32768
        cross == wrap16(wrap16(ah * bl) + wrap16(al * bh))
        al0 == al % 256
        al1 == al \div 256
        v == al1 * bl
        mid == IF v >= 8388608 THEN (v - 16777216) * 256 ELSE v * 256
    IN  AddW(AddW(cross * 65536, mid), al0 * bl)

\* a & b, four bits at a time
RECURSIVE BitAndW(_, _)
BitAndW(a, b) ==
    IF a = 0 \/ b = 0 THEN 0
    ELSE IF a = -1 THEN b
    ELSE IF b = -1 THEN a
    ELSE LET bit(v, i) == (v \div (2 ^ i)) % 2
             and4 == bit(a, 0) * bit(b, 0) + 2 * (bit(a, 1) * bit(b, 1))
                     + 4 * (bit(a, 2) * bit(b, 2))
                     + 8 * (bit(a, 3) * bit(b, 3))
         IN  and4 + 16 * BitAndW(a \div 16, b \div 16)

NotW(a) == (-1) - a

BitOrW(a, b) == NotW(BitAndW(NotW(a), NotW(b)))

BitXorW(a, b) == BitAndW(BitOrW(a, b), NotW(BitAndW(a, b)))

\* (unsigned)a < (unsigned)b on the two's complement representation
LessUnsW(a, b) == IF (a < 0) = (b < 0) THEN a < b ELSE b < 0


\* 1 << k for 0 <= k < 32 (bit 31 is the sign bit)
Pow2W(k) == IF k = 31 THEN IntMin ELSE 2 ^ k

\* The outcomes of the steps the C++ standard leaves undefined, as the two
\* families of targets produce them: "x86" traps on a division by zero (and on
\* INT_MIN / -1) and masks a shift count to 5 bits; "arm" yields 0 for a
\* division by zero and shifts counts outside 0..31 all the way out.
UBOutcomes == {"x86", "arm"}

\* k1 << k2
ShlW(a, k, ub) ==
    IF k >= 0 /\ k < 32 THEN MulW(a, Pow2W(k))
    ELSE IF ub = "x86" THEN MulW(a, Pow2W(k % 32)) ELSE 0

\* k1 >> k2 on int: sign-propagating
SarW(a, k, ub) ==
    LET sh(c) == IF c = 31 THEN (IF a < 0 THEN -1 ELSE 0) ELSE a \div (2 ^ c)
    IN  IF k >= 0 /\ k < 32 THEN sh(k)
        ELSE IF ub = "x86" THEN sh(k % 32) ELSE (IF a < 0 THEN -1 ELSE 0)

\* k1 / k2 on int, k2 # 0 and not INT_MIN / -1: truncates towards zero
DivS(a, b) ==
    IF b = IntMin THEN (IF a = IntMin THEN 1 ELSE 0)
    ELSE LET m == IF b < 0 THEN -b ELSE b
             f == a \div m
             q == IF a < 0 /\ a % m # 0 THEN f + 1 ELSE f
         IN  IF b < 0 THEN -q ELSE q

\* k1 % k2 on int
ModS(a, b) == SubW(a, MulW(b, DivS(a, b)))

\* (unsigned)k1 / (unsigned)k2, k2 # 0, result converted back to int
DivU(a, b) ==
    IF b < 0 THEN (IF LessUnsW(a, b) THEN 0 ELSE 1)
    ELSE IF a >= 0 THEN a \div b
    ELSE LET half == ((a \div 2) + IntMax) + 1
             h    == half \div b
             q0   == AddW(h, h)
             r    == SubW(a, MulW(q0, b))
         IN  IF LessUnsW(r, b) THEN q0 ELSE AddW(q0, 1)

\* (unsigned)k1 % (unsigned)k2
ModU(a, b) == SubW(a, MulW(DivU(a, b), b))

Bool2Int(b) == IF b THEN 1 ELSE 0

\* a signed division that the hardware cannot carry out
DivTraps(a, b) == b = 0 \/ (a = IntMin /\ b = -1)

\* the int an "arm" build leaves in k1 where the division is undefined
DivSOrUB(a, b) ==
    IF b = 0 THEN 0 ELSE IF a = IntMin /\ b = -1 THEN IntMin ELSE DivS(a, b)
ModSOrUB(a, b) == SubW(a, MulW(b, DivSOrUB(a, b)))
DivUOrUB(a, b) == IF b = 0 THEN 0 ELSE DivU(a, b)
ModUOrUB(a, b) == SubW(a, MulW(DivUOrUB(a, b), b))

-----------------------------------------------------------------------------
(* The OPER enumeration and the classes of exp.h *)

\* (int)op: the position of each operator in enum OPER
OperNum ==
    [opWild |-> -1,
     opPlus |-> 0, opMinus |-> 1, opMult |-> 2, opDiv |-> 3, opMults |-> 4,
     opDivs |-> 5, opMod |-> 6, opMods |-> 7, opNeg |-> 8, opAnd |-> 9,
     opOr |-> 10, opEquals |-> 11, opNotEqual |-> 12, opLess |-> 13,
     opGtr |-> 14, opLessEq |-> 15, opGtrEq |-> 16, opLessUns |-> 17,
     opGtrUns |-> 18, opLessEqUns |-> 19, opGtrEqUns |-> 20, opNot |-> 21,
     opLNot |-> 22, opBitAnd |-> 23, opBitOr |-> 24, opBitXor |-> 25,
     opShiftL |-> 26, opShiftR |-> 27, opShiftRA |-> 28, opTern |-> 29,
     opAt |-> 30, opMemOf |-> 31, opRegOf |-> 32, opAddrOf |-> 33,
     opSize |-> 34, opSuccessor |-> 35, opTruncu |-> 36, opZfill |-> 37,
     opSgnEx |-> 38, opList |-> 39, opFlagDef |-> 40, opTypedExp |-> 41,
     opAssignExp |-> 42, opIntConst |-> 43, opFltConst |-> 44,
     opStrConst |-> 45, opCodeAddr |-> 46, opPC |-> 47, opAFP |-> 48,
     opNil |-> 49]

\* Exp::isComparison
ComparisonOps ==
    {"opEquals", "opNotEqual", "opLess", "opGtr", "opLessEq", "opGtrEq",
     "opLessUns", "opGtrUns", "opLessEqUns", "opGtrEqUns"}

\* The constructors
Const(i) == [cls |-> "Const", op |-> "opIntConst", val |-> i, kids |-> <<>>]
FltConst(d) == [cls |-> "Const", op |-> "opFltConst", val |-> d, kids |-> <<>>]
StrConst(p) == [cls |-> "Const", op |-> "opStrConst", val |-> p, kids |-> <<>>]
Terminal(op) == [cls |-> "Terminal", op |-> op, val |-> 0, kids |-> <<>>]
Unary(op, e) == [cls |-> "Unary", op |-> op, val |-> 0, kids |-> <<e>>]
Binary(op, e1, e2) ==
    [cls |-> "Binary", op |-> op, val |-> 0, kids |-> <<e1, e2>>]
Ternary(op, e1, e2, e3) ==
    [cls |-> "Ternary", op |-> op, val |-> 0, kids |-> <<e1, e2, e3>>]
TypedExp(ty, e1) ==
    [cls |-> "TypedExp", op |-> "opTypedExp", val |-> ty, kids |-> <<e1>>]
AssignExp(sz, lhs, rhs) ==
    [cls |-> "AssignExp", op |-> "opAssignExp", val |-> sz,
     kids |-> <<lhs, rhs>>]
FlagDef(params, rtl) ==
    [cls |-> "FlagDef", op |-> "opFlagDef", val |-> rtl, kids |-> <<params>>]

\* accessors
getOper(e) == e.op
getSubExp1(e) == e.kids[1]
getSubExp2(e) == e.kids[2]
getSubExp3(e) == e.kids[3]
getInt(e) == e.val
setOper(e, o) == [e EXCEPT !.op = o]
setInt(e, k) == [e EXCEPT !.val = k]
setSubExp1(e, s) == [e EXCEPT !.kids[1] = s]
setSubExp2(e, s) == [e EXCEPT !.kids[2] = s]
setSubExp3(e, s) == [e EXCEPT !.kids[3] = s]

\* Binary::commute
commute(e) == [e EXCEPT !.kids[1] = e.kids[2], !.kids[2] = e.kids[1]]

\* the Type handle: operator== / operator< on the type's contents
TypeEq(t1, t2) == t1 = t2
TypeLess(t1, t2) == t1 < t2
\* Type::getSize
TypeSize(t) == t

-----------------------------------------------------------------------------
(* clone *)

RECURSIVE Clone(_)
Clone(e) ==
    CASE e.cls = "Const"     -> [cls |-> "Const", op |-> e.op, val |-> e.val,
                                 kids |-> <<>>]
      [] e.cls = "Terminal"  -> Terminal(e.op)
      [] e.cls = "Unary"     -> Unary(e.op, Clone(e.kids[1]))
      [] e.cls = "FlagDef"   -> Unary(e.op, Clone(e.kids[1]))
      [] e.cls = "Binary"    -> Binary(e.op, Clone(e.kids[1]), Clone(e.kids[2]))
      [] e.cls = "Ternary"   -> Ternary(e.op, Clone(e.kids[1]),
                                        Clone(e.kids[2]), Clone(e.kids[3]))
      [] e.cls = "TypedExp"  -> TypedExp(e.val, Clone(e.kids[1]))
      [] e.cls = "AssignExp" -> AssignExp(e.val, Clone(e.kids[1]),
                                          Clone(e.kids[2]))

-----------------------------------------------------------------------------
(* operator== *)

\* The payload of a float constant is a double: a number, or a NaN, which
\* IEEE comparison makes unordered and unequal to everything, itself
\* included.
Dbl(v) == [nan |-> FALSE, v |-> v]
NaN == [nan |-> TRUE, v |-> 0]
\* double == double
FltEq(a, b) == ~a.nan /\ ~b.nan /\ a.v = b.v
\* double < double
FltLess(a, b) == ~a.nan /\ ~b.nan /\ a.v < b.v

\* strcmp(a, b) < 0 on the bytes of two strings
RECURSIVE StrLess(_, _)
StrLess(a, b) ==
    IF b = <<>> THEN FALSE
    ELSE IF a = <<>> THEN TRUE
    ELSE IF Head(a) < Head(b) THEN TRUE
    ELSE IF Head(a) > Head(b) THEN FALSE
    ELSE StrLess(Tail(a), Tail(b))

\* strcmp(a, b) == 0
StrEq(a, b) == ~StrLess(a, b) /\ ~StrLess(b, a)

\* wildcard matching as a Terminal does it, but testing this side only
TerminalEqOneSided(e, o) == e.op = "opWild" \/ e.op = o.op

\* TypedExp equality that does not look at the type
RECURSIVE Equals(_, _)
TypedExpEqNoType(e, o) ==
    IF e.op = "opWild" THEN TRUE
    ELSE IF o.op = "opWild" THEN TRUE
    ELSE IF o.op # "opTypedExp" THEN FALSE
    ELSE Equals(e.kids[1], o.kids[1])

\* Const::operator==
ConstEq(e, o) ==
    IF e.op = "opWild" THEN TRUE
    ELSE IF o.op = "opWild" THEN TRUE
    ELSE IF e.op # o.op THEN FALSE
    ELSE CASE e.op = "opIntConst" -> e.val = o.val
           [] e.op = "opFltConst" -> FltEq(e.val, o.val)
           [] e.op = "opStrConst" -> StrEq(e.val, o.val)
           [] OTHER -> FALSE

\* Unary::operator== (FlagDef inherits it)
UnaryEq(e, o) ==
    IF e.op = "opWild" THEN TRUE
    ELSE IF o.op = "opWild" THEN TRUE
    ELSE IF e.op # o.op THEN FALSE
    ELSE Equals(e.kids[1], o.kids[1])

\* Binary::operator==
BinaryEq(e, o) ==
    IF e.op = "opWild" THEN TRUE
    ELSE IF o.op = "opWild" THEN TRUE
    ELSE IF e.op # o.op THEN FALSE
    ELSE IF ~Equals(e.kids[1], o.kids[1]) THEN FALSE
    ELSE Equals(e.kids[2], o.kids[2])

\* Ternary::operator==
TernaryEq(e, o) ==
    IF e.op = "opWild" THEN TRUE
    ELSE IF o.op = "opWild" THEN TRUE
    ELSE IF e.op # o.op THEN FALSE
    ELSE IF ~Equals(e.kids[1], o.kids[1]) THEN FALSE
    ELSE IF ~Equals(e.kids[2], o.kids[2]) THEN FALSE
    ELSE Equals(e.kids[3], o.kids[3])

\* Terminal::operator==
TerminalEq(e, o) == e.op = "opWild" \/ o.op = "opWild" \/ e.op = o.op

\* TypedExp::operator==
TypedExpEq(e, o) ==
    IF e.op = "opWild" THEN TRUE
    ELSE IF o.op = "opWild" THEN TRUE
    ELSE IF o.op # "opTypedExp" THEN FALSE
    ELSE IF ~TypeEq(e.val, o.val) THEN FALSE
    ELSE Equals(e.kids[1], o.kids[1])

\* AssignExp::operator==
AssignExpEq(e, o) ==
    IF e.op = "opWild" THEN TRUE
    ELSE IF o.op = "opWild" THEN TRUE
    ELSE IF o.op # "opAssignExp" THEN FALSE
    ELSE IF e.val # o.val THEN FALSE
    ELSE Equals(e.kids[1], o.kids[1]) /\ Equals(e.kids[2], o.kids[2])

\* *e == *o: the virtual operator== of e's class
Equals(e, o) ==
    CASE e.cls = "Const"     -> ConstEq(e, o)
      [] e.cls = "Terminal"  -> TerminalEq(e, o)
      [] e.cls = "Unary"     -> UnaryEq(e, o)
      [] e.cls = "FlagDef"   -> UnaryEq(e, o)
      [] e.cls = "Binary"    -> BinaryEq(e, o)
      [] e.cls = "Ternary"   -> TernaryEq(e, o)
      [] e.cls = "TypedExp"  -> TypedExpEq(e, o)
      [] e.cls = "AssignExp" -> AssignExpEq(e, o)

-----------------------------------------------------------------------------
(* operator< *)

OpLess(a, b) == OperNum[a] < OperNum[b]

RECURSIVE Less(_, _)
Less(e, o) ==
    IF e.cls = "Terminal" THEN OpLess(e.op, o.op)
    ELSE IF OpLess(e.op, o.op) THEN TRUE
    ELSE IF OpLess(o.op, e.op) THEN FALSE
    ELSE CASE e.cls = "Const" ->
                 CASE e.op = "opIntConst" -> e.val < o.val
                   [] e.op = "opFltConst" -> FltLess(e.val, o.val)
                   [] e.op = "opStrConst" -> StrLess(e.val, o.val)
                   [] OTHER -> FALSE
           [] e.cls \in {"Unary", "FlagDef"} -> Less(e.kids[1], o.kids[1])
           [] e.cls = "Binary" ->
                 IF Less(e.kids[1], o.kids[1]) THEN TRUE
                 ELSE IF Less(o.kids[1], e.kids[1]) THEN FALSE
                 ELSE Less(e.kids[2], o.kids[2])
           [] e.cls = "Ternary" ->
                 IF Less(e.kids[1], o.kids[1]) THEN TRUE
                 ELSE IF Less(o.kids[1], e.kids[1]) THEN FALSE
                 ELSE Less(e.kids[3], o.kids[3])
           [] e.cls = "TypedExp" ->
                 IF TypeLess(e.val, o.val) THEN TRUE
                 ELSE IF TypeLess(o.val, e.val) THEN FALSE
                 ELSE Less(e.kids[1], o.kids[1])
           [] e.cls = "AssignExp" ->
                 IF e.val < o.val THEN TRUE
                 ELSE IF o.val < e.val THEN FALSE
                 ELSE Less(e.kids[1], o.kids[1])
                      \/ Less(e.kids[2], o.kids[2])

-----------------------------------------------------------------------------
(* partitionTerms, Accumulate, simplifyArith *)

\* a partition: positives and negatives are lists of terms, integers a list
\* of ints
EmptyPartition == [positives |-> <<>>, negatives |-> <<>>, integers |-> <<>>]

\* partitionTerms passing negate unchanged to the right operand of -
RECURSIVE partitionTermsNoFlip(_, _, _)
partitionTermsNoFlip(e, part, negate) ==
    CASE e.op \in {"opPlus", "opMinus"} ->
             partitionTermsNoFlip(e.kids[2],
                 partitionTermsNoFlip(e.kids[1], part, negate), negate)
      [] e.op = "opTypedExp" -> partitionTermsNoFlip(e.kids[1], part, negate)
      [] e.op = "opIntConst" ->
             [part EXCEPT !.integers =
                 Append(@, IF negate THEN NegW(e.val) ELSE e.val)]
      [] OTHER ->
             IF negate
               THEN [part EXCEPT !.negatives = Append(@, e)]
               ELSE [part EXCEPT !.positives = Append(@, e)]

RECURSIVE partitionTerms(_, _, _)
partitionTerms(e, part, negate) ==
    CASE e.op = "opPlus" ->
             partitionTerms(e.kids[2],
                            partitionTerms(e.kids[1], part, negate), negate)
      [] e.op = "opMinus" ->
             partitionTerms(e.kids[2],
                            partitionTerms(e.kids[1], part, negate), ~negate)
      [] e.op = "opTypedExp" -> partitionTerms(e.kids[1], part, negate)
      [] e.op = "opAssignExp" ->
             partitionTerms(e.kids[1],
                            partitionTerms(e.kids[1], part, negate), negate)
      [] e.op = "opIntConst" ->
             [part EXCEPT !.integers =
                 Append(@, IF negate THEN NegW(e.val) ELSE e.val)]
      [] OTHER ->
             IF negate
               THEN [part EXCEPT !.negatives = Append(@, e)]
               ELSE [part EXCEPT !.positives = Append(@, e)]

\* std::list::erase of the i-th element
Erase(s, i) == SubSeq(s, 1, i - 1) \o SubSeq(s, i + 1, Len(s))

\* The cancelling loop of Binary::simplifyArith: pp is the index into
\* positives, nn the index into negatives; nn is set once, before the loop.
RECURSIVE Cancel(_, _, _, _)
Cancel(pos, neg, pp, nn) ==
    IF pp > Len(pos) THEN [positives |-> pos, negatives |-> neg]
    ELSE LET hits == {j \in nn .. Len(neg) : Equals(pos[pp], neg[j])}
         IN  IF hits # {}
               THEN LET j == CHOOSE h \in hits : \A g \in hits : h <= g
                    IN  Cancel(Erase(pos, pp), Erase(neg, j), pp, j)
               ELSE Cancel(pos, neg, pp + 1, Len(neg) + 1)

\* std::accumulate(integers.begin(), integers.end(), 0)
RECURSIVE SumInts(_)
SumInts(s) == IF s = <<>> THEN 0 ELSE AddW(Head(s), SumInts(Tail(s)))

\* Accumulate building the chain from the left: (e1 + e2) + e3
RECURSIVE AccumulateLeft(_)
AccumulateLeft(exprs) ==
    IF Len(exprs) = 0 THEN Const(0)
    ELSE IF Len(exprs) = 1 THEN Clone(exprs[1])
    ELSE Binary("opPlus",
                AccumulateLeft(SubSeq(exprs, 1, Len(exprs) - 1)),
                Clone(exprs[Len(exprs)]))

RECURSIVE Accumulate(_)
Accumulate(exprs) ==
    IF Len(exprs) = 0 THEN Const(0)
    ELSE IF Len(exprs) = 1 THEN Clone(exprs[1])
    ELSE Binary("opPlus", Clone(exprs[1]), Accumulate(Tail(exprs)))

\* simplifyArith returning a Binary that is no + or - as it is
RECURSIVE simplifyArithRootOnly(_)
simplifyArithRootOnly(e) ==
    CASE e.cls \in {"Unary", "FlagDef", "TypedExp"} ->
             IF e.op = "opMemOf" \/ e.op = "opRegOf"
               THEN Unary(e.op, simplifyArithRootOnly(e.kids[1]))
               ELSE e
      [] e.cls = "AssignExp" ->
             [e EXCEPT !.kids[1] = simplifyArithRootOnly(e.kids[1]),
                       !.kids[2] = simplifyArithRootOnly(e.kids[2])]
      [] e.cls \in {"Binary", "Ternary"} ->
             IF e.op # "opPlus" /\ e.op # "opMinus"
               THEN e
               ELSE LET part == partitionTerms(e, EmptyPartition, FALSE)
                        c    == Cancel(part.positives, part.negatives, 1, 1)
                        sum  == SumInts(part.integers)
                    IN  IF Len(c.positives) = 0
                          THEN IF Len(c.negatives) = 0
                                 THEN Const(sum)
                                 ELSE Binary("opMinus", Const(sum),
                                             Accumulate(c.negatives))
                        ELSE IF Len(c.negatives) = 0
                          THEN IF sum = 0
                                 THEN Accumulate(c.positives)
                                 ELSE Binary("opPlus",
                                             Accumulate(c.positives),
                                             Const(sum))
                        ELSE IF sum = 0
                          THEN Binary("opMinus", Accumulate(c.positives),
                                      Accumulate(c.negatives))
                        ELSE Binary("opPlus",
                                    Binary("opMinus",
                                           Accumulate(c.positives),
                                           Accumulate(c.negatives)),
                                    Const(sum))
      [] OTHER -> e

RECURSIVE simplifyArith(_)
simplifyArith(e) ==
    CASE e.cls \in {"Unary", "FlagDef", "TypedExp"} ->
             IF e.op = "opMemOf" \/ e.op = "opRegOf"
               THEN Unary(e.op, simplifyArith(e.kids[1]))
               ELSE e
      [] e.cls = "AssignExp" ->
             [e EXCEPT !.kids[1] = simplifyArith(e.kids[1]),
                       !.kids[2] = simplifyArith(e.kids[2])]
      [] e.cls \in {"Binary", "Ternary"} ->
             IF e.op # "opPlus" /\ e.op # "opMinus"
               THEN [e EXCEPT !.kids[1] = simplifyArith(e.kids[1]),
                              !.kids[2] = simplifyArith(e.kids[2])]
               ELSE LET part == partitionTerms(e, EmptyPartition, FALSE)
                        c    == Cancel(part.positives, part.negatives, 1, 1)
                        sum  == SumInts(part.integers)
                    IN  IF Len(c.positives) = 0
                          THEN IF Len(c.negatives) = 0
                                 THEN Const(sum)
                                 ELSE Binary("opMinus", Const(sum),
                                             Accumulate(c.negatives))
                        ELSE IF Len(c.negatives) = 0
                          THEN IF sum = 0
                                 THEN Accumulate(c.positives)
                                 ELSE Binary("opPlus",
                                             Accumulate(c.positives),
                                             Const(sum))
                        ELSE IF sum = 0
                          THEN Binary("opMinus", Accumulate(c.positives),
                                      Accumulate(c.negatives))
                        ELSE Binary("opPlus",
                                    Binary("opMinus",
                                           Accumulate(c.positives),
                                           Accumulate(c.negatives)),
                                    Const(sum))
      [] OTHER -> e

-----------------------------------------------------------------------------
(* polySimplify *)

\* The switch of Binary::polySimplify on two integer constants.  change is
\* the local flag, k the new k1, fatal whether the step trapped.  opDiv and
\* opMod have no break and run into the signed case.
FoldConst(op, k1, k2, ub) ==
    LET ok(k) == [change |-> TRUE, k |-> k, fatal |-> FALSE]
        div(a, b) == [change |-> TRUE, k |-> DivSOrUB(a, b),
                      fatal |-> ub = "x86" /\ DivTraps(a, b)]
        mod(a, b) == [change |-> TRUE, k |-> ModSOrUB(a, b),
                      fatal |-> ub = "x86" /\ DivTraps(a, b)]
        orFatal(r, f) == [r EXCEPT !.fatal = @ \/ f]
    IN  CASE op = "opPlus"   -> ok(AddW(k1, k2))
          [] op = "opMinus"  -> ok(SubW(k1, k2))
          [] op = "opDiv"    -> orFatal(div(DivUOrUB(k1, k2), k2),
                                        ub = "x86" /\ k2 = 0)
          [] op = "opDivs"   -> div(k1, k2)
          [] op = "opMod"    -> orFatal(mod(ModUOrUB(k1, k2), k2),
                                        ub = "x86" /\ k2 = 0)
          [] op = "opMods"   -> mod(k1, k2)
          [] op = "opMult"   -> ok(MulW(k1, k2))
          [] op = "opMults"  -> ok(MulW(k1, k2))
          [] op = "opShiftL" -> ok(ShlW(k1, k2, ub))
          [] op = "opShiftR" -> ok(SarW(k1, k2, ub))
          [] op = "opShiftRA" ->
                 ok(BitOrW(SarW(k1, k2, ub),
                           ShlW(SubW(ShlW(1, k2, ub), 1), SubW(32, k2), ub)))
          [] op = "opBitOr"  -> ok(BitOrW(k1, k2))
          [] op = "opBitAnd" -> ok(BitAndW(k1, k2))
          [] op = "opBitXor" -> ok(BitXorW(k1, k2))
          [] op = "opAnd"    -> ok(Bool2Int(k1 # 0 /\ k2 # 0))
          [] op = "opOr"     -> ok(Bool2Int(k1 # 0 \/ k2 # 0))
          [] op = "opEquals" -> ok(Bool2Int(k1 = k2))
          [] op = "opNotEqual" -> ok(Bool2Int(k1 # k2))
          [] op = "opLess"   -> ok(Bool2Int(k1 < k2))
          [] op = "opGtr"    -> ok(Bool2Int(k1 > k2))
          [] op = "opLessEq" -> ok(Bool2Int(k1 <= k2))
          [] op = "opGtrEq"  -> ok(Bool2Int(k1 >= k2))
          [] op = "opLessUns" -> ok(Bool2Int(LessUnsW(k1, k2)))
          [] op = "opGtrUns" -> ok(Bool2Int(LessUnsW(k2, k1)))
          [] op = "opLessEqUns" -> ok(Bool2Int(~LessUnsW(k2, k1)))
          [] op = "opGtrEqUns" -> ok(Bool2Int(~LessUnsW(k1, k2)))
          [] OTHER -> [change |-> FALSE, k |-> k1, fatal |-> FALSE]

\* what a polySimplify call hands back: the returned tree, bMod after the
\* call, and whether the call died
Ret(e, b, f) == [e |-> e, bMod |-> b, fatal |-> f]

\* Exp::polySimplify, which Const and Terminal inherit
ExpPolySimplify(e, b) == Ret(e, b, FALSE)

\* Unary::polySimplify after subExp1 has been simplified
UnaryRules(e, b, f) ==
    LET sub == e.kids[1]
        subOP == sub.op
    IN  CASE e.op \in {"opNeg", "opNot", "opLNot", "opSize"} ->
               IF subOP = "opIntConst"
                 THEN LET k == sub.val
                          k2 == CASE e.op = "opNeg"  -> NegW(k)
                                  [] e.op = "opNot"  -> NotW(k)
                                  [] e.op = "opLNot" -> Bool2Int(k = 0)
                                  [] OTHER -> k
                      IN  Ret(setInt(sub, k2), TRUE, f)
               ELSE IF (e.op = "opNot" \/ e.op = "opLNot")
                       /\ subOP = "opEquals"
                 THEN Ret(setOper(sub, "opNotEqual"), TRUE, f)
               ELSE IF e.op = subOP
                 THEN Ret(sub.kids[1], TRUE, f)
               ELSE Ret(e, b, f)
          [] e.op = "opAddrOf" ->
               IF subOP = "opMemOf"
                 THEN Ret(sub.kids[1], TRUE, f)
                 ELSE Ret(e, b, f)
          [] OTHER -> Ret(e, b, f)

\* the rewrites of Binary::polySimplify that build the node from the two
\* children of its first child
TakeKids(e, newOp) ==
    [e EXCEPT !.op = newOp, !.kids = e.kids[1].kids]

RECURSIVE polySimplify(_, _, _)

\* Binary::polySimplify from "Check for (x + y) compare 0" on.  opSub1 and
\* opSub2 are the locals of the function: they are not refreshed when the
\* "-x compare y" rewrite replaces the children.
BinaryCompareRules(e, opSub1, opSub2, b, f, ub) ==
    LET op == e.op
        s1 == e.kids[1]
        s2 == e.kids[2]
        int2(k) == opSub2 = "opIntConst" /\ getInt(s2) = k
    IN  IF op \in ComparisonOps /\ int2(0) /\ opSub1 = "opPlus"
          THEN Ret([e EXCEPT !.kids = <<s1.kids[1],
                                        Unary("opNeg", s1.kids[2])>>],
                   TRUE, f)
        ELSE IF op = "opEquals" /\ int2(1) /\ opSub1 = "opEquals"
          THEN Ret(TakeKids(e, op), TRUE, f)
        ELSE IF op = "opEquals" /\ int2(0) /\ opSub1 = "opPlus"
                /\ s1.kids[2].op = "opIntConst" /\ s1.kids[2].val < 0
          THEN Ret([e EXCEPT !.kids = <<s1.kids[1],
                        setInt(s1.kids[2], NegW(s1.kids[2].val))>>],
                   TRUE, f)
        ELSE IF op = "opEquals" /\ int2(0) /\ opSub1 = "opEquals"
          THEN Ret(TakeKids(e, "opNotEqual"), TRUE, f)
        ELSE IF op = "opNotEqual" /\ int2(1) /\ opSub1 = "opEquals"
          THEN Ret(TakeKids(e, "opNotEqual"), TRUE, f)
        ELSE IF op = "opNotEqual" /\ int2(0) /\ opSub1 = "opEquals"
          THEN Ret(s1, TRUE, f)
        ELSE IF op = "opEquals" /\ int2(0) /\ opSub1 = "opGtr"
          THEN Ret(TakeKids(e, "opLessEq"), TRUE, f)
        ELSE IF op = "opEquals" /\ int2(0) /\ opSub1 = "opGtrUns"
          THEN Ret(TakeKids(e, "opLessEqUns"), TRUE, f)
        ELSE IF op = "opOr" /\ opSub2 = "opEquals"
                /\ opSub1 \in {"opGtrEq", "opLessEq", "opGtrEqUns",
                               "opLessEqUns"}
                /\ (   (Equals(s1.kids[1], s2.kids[1])
                        /\ Equals(s1.kids[2], s2.kids[2]))
                    \/ (Equals(s1.kids[1], s2.kids[2])
                        /\ Equals(s1.kids[2], s2.kids[1])))
          THEN Ret(s1, TRUE, f)
        ELSE IF op = "opOr" \/ op = "opAnd"
          THEN LET r1 == polySimplify(s1, b, ub)
                   r2 == polySimplify(s2, r1.bMod, ub)
               IN  Ret([e EXCEPT !.kids = <<r1.e, r2.e>>], r2.bMod,
                       f \/ r1.fatal \/ r2.fatal)
        ELSE IF op = "opBitAnd" /\ Equals(s1, s2)
          THEN Ret(s1, TRUE, f)
        ELSE IF op = "opPlus" /\ opSub2 = "opMult"
                /\ Equals(s1, s2.kids[1])
                /\ s2.kids[2].op = "opIntConst"
          THEN Ret([s2 EXCEPT !.kids[2] =
                       setInt(s2.kids[2], AddW(s2.kids[2].val, 1))],
                   TRUE, f)
        ELSE IF op = "opMult" /\ opSub1 = "opMult"
                /\ opSub2 = "opIntConst"
                /\ s1.kids[2].op = "opIntConst"
          THEN Ret([s1 EXCEPT !.kids[2] =
                       setInt(s1.kids[2], MulW(s1.kids[2].val, s2.val))],
                   TRUE, f)
        ELSE IF op = "opLNot" /\ opSub1 = "opEquals"
          THEN Ret(setOper(s1, "opNotEqual"), TRUE, f)
        ELSE IF op = "opLNot" /\ opSub1 = "opNotEqual"
          THEN Ret(setOper(s1, "opEquals"), TRUE, f)
        ELSE Ret(e, b, f)

\* Binary::polySimplify from "Check for exp + 0" on
BinaryRules(e, opSub1, opSub2, b, f, ub) ==
    LET op == e.op
        s1 == e.kids[1]
        s2 == e.kids[2]
        isInt2 == opSub2 = "opIntConst"
        k == getInt(s2)
    IN  IF op \in {"opPlus", "opMinus", "opBitOr", "opOr"} /\ isInt2 /\ k = 0
          THEN Ret(s1, TRUE, f)
        ELSE IF op \in {"opMult", "opMults", "opBitAnd", "opAnd"}
                /\ isInt2 /\ k = 0
          THEN Ret(Const(0), TRUE, f)
        ELSE IF op \in {"opMult", "opMults"} /\ isInt2 /\ k = 1
          THEN Ret(s1, TRUE, f)
        ELSE IF op = "opBitAnd" /\ isInt2 /\ k = -1
          THEN Ret(s1, TRUE, f)
        ELSE IF op = "opAnd" /\ isInt2 /\ k # 0
          THEN Ret(s1, TRUE, f)
        ELSE IF op = "opMinus" /\ isInt2
          THEN Ret([e EXCEPT !.op = "opPlus",
                             !.kids[2] = setInt(s2, NegW(k))], TRUE, f)
        ELSE IF op = "opShiftL" /\ isInt2 /\ k >= 0 /\ k < 32
          THEN Ret([e EXCEPT !.op = "opMult",
                             !.kids[2] = setInt(s2, Pow2W(k))], TRUE, f)
        ELSE IF op \in ComparisonOps /\ opSub1 = "opNeg"
          THEN BinaryCompareRules(
                   [e EXCEPT !.kids = <<Clone(s1.kids[1]),
                                        Unary("opNeg", s2)>>],
                   opSub1, opSub2, b, f, ub)
        ELSE BinaryCompareRules(e, opSub1, opSub2, b, f, ub)

\* Binary::polySimplify after both children have been simplified
BinaryFold(e, b, f, ub) ==
    LET s1 == e.kids[1]
        s2 == e.kids[2]
        opSub1 == s1.op
        opSub2 == s2.op
        bothInt == opSub1 = "opIntConst" /\ opSub2 = "opIntConst"
        fold == FoldConst(e.op, getInt(s1), getInt(s2), ub)
    IN  IF bothInt /\ fold.change
          THEN Ret(Const(fold.k), TRUE, f \/ fold.fatal)
        ELSE IF (e.op = "opBitXor" \/ e.op = "opMinus") /\ Equals(s1, s2)
          THEN Ret(Const(0), TRUE, f)
        ELSE LET \* turn a - b into a + -b
                 m == IF e.op = "opMinus"
                        THEN [e EXCEPT !.op = "opPlus",
                                       !.kids[2] = Unary("opNeg", s2)]
                        ELSE e
                 mSub2 == IF e.op = "opMinus" THEN "opNeg" ELSE opSub2
                 \* commute to put an integer constant on the RHS
                 doSwap == opSub1 = "opIntConst"
                           /\ (m.op = "opPlus" \/ m.op = "opMult")
                 c == IF doSwap THEN commute(m) ELSE m
                 cSub1 == IF doSwap THEN mSub2 ELSE opSub1
                 cSub2 == IF doSwap THEN opSub1 ELSE mSub2
             IN  BinaryRules(c, cSub1, cSub2, b, f, ub)

polySimplify(e, b, ub) ==
    CASE e.cls \in {"Const", "Terminal"} -> ExpPolySimplify(e, b)
      [] e.cls \in {"Unary", "FlagDef"} ->
           LET r1 == polySimplify(e.kids[1], b, ub)
               e1 == setSubExp1(e, r1.e)
           IN  IF e.op = "opMemOf" \/ e.op = "opRegOf"
                 THEN LET r2 == polySimplify(r1.e, r1.bMod, ub)
                      IN  Ret(setSubExp1(e, simplifyArith(r2.e)), r2.bMod,
                              r1.fatal \/ r2.fatal)
                 ELSE UnaryRules(e1, r1.bMod, r1.fatal)
      [] e.cls = "Binary" ->
           LET r1 == polySimplify(e.kids[1], b, ub)
               r2 == polySimplify(e.kids[2], r1.bMod, ub)
           IN  BinaryFold([e EXCEPT !.kids = <<r1.e, r2.e>>], r2.bMod,
                          r1.fatal \/ r2.fatal, ub)
      [] e.cls = "Ternary" ->
           LET r1 == polySimplify(e.kids[1], b, ub)
               r2 == polySimplify(e.kids[2], r1.bMod, ub)
               r3 == polySimplify(e.kids[3], r2.bMod, ub)
               f  == r1.fatal \/ r2.fatal \/ r3.fatal
           IN  IF r2.e.op = "opIntConst" /\ r3.e.op = "opIntConst"
                  /\ getInt(r2.e) = 1 /\ getInt(r3.e) = 0
                 THEN Ret(r1.e, TRUE, f)
                 ELSE Ret([e EXCEPT !.kids = <<r1.e, r2.e, r3.e>>],
                          r3.bMod, f)
      [] e.cls = "TypedExp" ->
           LET r1 == polySimplify(e.kids[1], b, ub)
           IN  Ret(setSubExp1(e, r1.e), r1.bMod,
                   r1.fatal \/ e.kids[1].op = "opAssignExp")
      [] e.cls = "AssignExp" ->
           LET r1 == polySimplify(e.kids[1], b, ub)
               r2 == polySimplify(e.kids[2], r1.bMod, ub)
           IN  Ret([e EXCEPT !.kids = <<r1.e, r2.e>>], r2.bMod,
                   r1.fatal \/ r2.fatal)

-----------------------------------------------------------------------------
(* The expressions the operations are applied to *)

Ints == -MaxK .. MaxK

\* r[0] .. r[NumRegs-1]
Regs == {Unary("opRegOf", Const(i)) : i \in 0 .. NumRegs - 1}

SimpLeaves == {Const(k) : k \in Ints} \cup Regs

SimpUnaryOps == {"opNeg", "opNot", "opLNot", "opAddrOf", "opMemOf"}

SimpBinaryOps ==
    {"opPlus", "opMinus", "opMult", "opMults", "opDiv", "opDivs", "opMod",
     "opMods", "opShiftL", "opShiftR", "opShiftRA", "opBitOr", "opBitAnd",
     "opBitXor", "opAnd", "opOr", "opEquals", "opNotEqual", "opLess",
     "opGtr", "opLessEq", "opGtrEq", "opLessUns", "opGtrUns", "opLessEqUns",
     "opGtrEqUns"}

\* one operator over leaves
SimpLevel1 ==
    SimpLeaves
    \cup {Unary(o, l) : o \in SimpUnaryOps, l \in SimpLeaves}
    \cup {Binary(o, l1, l2) : o \in SimpBinaryOps, l1, l2 \in SimpLeaves}

\* an operator over one operator: e is one of the inputs of simplify
SimpInput(e) ==
    \/ e \in SimpLevel1
    \/ \E o \in SimpUnaryOps, s \in SimpLevel1 : e = Unary(o, s)
    \/ \E o \in SimpBinaryOps, s \in SimpLevel1, l \in SimpLeaves :
          e = Binary(o, s, l)
    \/ \E o \in SimpBinaryOps, s \in SimpLevel1, l \in SimpLeaves :
          e = Binary(o, l, s)
    \/ \E c, l1, l2 \in SimpLeaves : e = Ternary("opTern", c, l1, l2)

-----------------------------------------------------------------------------
(* Exp::simplify, run twice on the same expression *)

\* the value of the variables an operation does not use
None == Const(0)

InitSimplify ==
    /\ SimpInput(x)
    /\ y = None /\ z = None
    /\ pc = "simplify"
    /\ res = x
    /\ bMod = FALSE
    /\ passes = 0
    /\ first = None
    /\ fatal = FALSE
    /\ out = <<>>
    /\ heap = <<>>
    /\ xp = 0
    /\ yp = 0

\* one iteration of the do-while loop of Exp::simplify
SimplifyPass ==
    /\ pc \in {"simplify", "simplify2"}
    /\ \E ub \in UBOutcomes :
          LET r == polySimplify(res, FALSE, ub)
          IN  /\ fatal' = r.fatal
              /\ res' = r.e
              /\ bMod' = r.bMod
              /\ passes' = passes + 1
              /\ pc' = IF r.fatal THEN "fatal"
                       ELSE IF r.bMod THEN pc
                       ELSE IF pc = "simplify" THEN "simplified"
                       ELSE "simplified2"
    /\ UNCHANGED <<x, y, z, first, out, heap, xp, yp>>

\* the caller passes the result to simplify once more
SimplifyAgain ==
    /\ pc = "simplified"
    /\ pc' = "simplify2"
    /\ first' = res
    /\ passes' = 0
    /\ UNCHANGED <<x, y, z, res, bMod, fatal, out, heap, xp, yp>>

NextSimplify == SimplifyPass \/ SimplifyAgain

SpecSimplify == InitSimplify /\ [][NextSimplify]_vars

-----------------------------------------------------------------------------
(* Integer evaluation of an expression (spec 4.3.2, rule 1): two's          *)
(* complement 32-bit values, wrap-around arithmetic, comparisons and        *)
(* logical operators yielding 0 or 1.  A value is [ok, v]; ok is FALSE      *)
(* where the expression has no value (division by zero, a shift count       *)
(* outside 0..31, an operator that is not an integer operator).             *)

Val(v) == [ok |-> TRUE, v |-> v]
NoVal == [ok |-> FALSE, v |-> 0]

\* bindings of the registers to integers
EvalInts == -MaxK .. MaxK + 1
Envs == [0 .. NumRegs - 1 -> EvalInts]

EvalUnary(op, a) ==
    CASE op = "opNeg"  -> Val(NegW(a))
      [] op = "opNot"  -> Val(NotW(a))
      [] op = "opLNot" -> Val(Bool2Int(a = 0))
      [] OTHER -> NoVal

EvalBinary(op, a, b) ==
    LET inRange == b >= 0 /\ b < 32
    IN  CASE op = "opPlus"   -> Val(AddW(a, b))
          [] op = "opMinus"  -> Val(SubW(a, b))
          [] op = "opMult"   -> Val(MulW(a, b))
          [] op = "opMults"  -> Val(MulW(a, b))
          [] op = "opDiv"    -> IF b = 0 THEN NoVal ELSE Val(DivU(a, b))
          [] op = "opMod"    -> IF b = 0 THEN NoVal ELSE Val(ModU(a, b))
          [] op = "opDivs"   -> IF DivTraps(a, b) THEN NoVal
                                ELSE Val(DivS(a, b))
          [] op = "opMods"   -> IF DivTraps(a, b) THEN NoVal
                                ELSE Val(ModS(a, b))
          [] op = "opShiftL" -> IF inRange THEN Val(MulW(a, Pow2W(b)))
                                ELSE NoVal
          [] op = "opShiftR" ->
                 IF ~inRange THEN NoVal
                 ELSE IF b = 0 THEN Val(a)
                 ELSE Val(DivU(a, Pow2W(b)))
          [] op = "opShiftRA" ->
                 IF ~inRange THEN NoVal
                 ELSE IF b = 31 THEN Val(IF a < 0 THEN -1 ELSE 0)
                 ELSE Val(a \div (2 ^ b))
          [] op = "opBitOr"  -> Val(BitOrW(a, b))
          [] op = "opBitAnd" -> Val(BitAndW(a, b))
          [] op = "opBitXor" -> Val(BitXorW(a, b))
          [] op = "opAnd"    -> Val(Bool2Int(a # 0 /\ b # 0))
          [] op = "opOr"     -> Val(Bool2Int(a # 0 \/ b # 0))
          [] op = "opEquals" -> Val(Bool2Int(a = b))
          [] op = "opNotEqual" -> Val(Bool2Int(a # b))
          [] op = "opLess"   -> Val(Bool2Int(a < b))
          [] op = "opGtr"    -> Val(Bool2Int(a > b))
          [] op = "opLessEq" -> Val(Bool2Int(a <= b))
          [] op = "opGtrEq"  -> Val(Bool2Int(a >= b))
          [] op = "opLessUns" -> Val(Bool2Int(LessUnsW(a, b)))
          [] op = "opGtrUns" -> Val(Bool2Int(LessUnsW(b, a)))
          [] op = "opLessEqUns" -> Val(Bool2Int(~LessUnsW(b, a)))
          [] op = "opGtrEqUns" -> Val(Bool2Int(~LessUnsW(a, b)))
          [] OTHER -> NoVal

RECURSIVE Eval(_, _)
Eval(e, env) ==
    CASE e.op = "opIntConst" -> Val(e.val)
      [] e.op = "opRegOf" ->
           IF e.kids[1].op = "opIntConst" /\ e.kids[1].val \in DOMAIN env
             THEN Val(env[e.kids[1].val])
             ELSE NoVal
      [] e.op = "opTern" /\ Len(e.kids) = 3 ->
           LET c == Eval(e.kids[1], env)
           IN  IF ~c.ok THEN NoVal
               ELSE IF c.v # 0 THEN Eval(e.kids[2], env)
               ELSE Eval(e.kids[3], env)
      [] e.op # "opRegOf" /\ Len(e.kids) = 1 ->
           LET a == Eval(e.kids[1], env)
           IN  IF a.ok THEN EvalUnary(e.op, a.v) ELSE NoVal
      [] Len(e.kids) = 2 ->
           LET a == Eval(e.kids[1], env)
               b == Eval(e.kids[2], env)
           IN  IF a.ok /\ b.ok THEN EvalBinary(e.op, a.v, b.v) ELSE NoVal
      [] OTHER -> NoVal

-----------------------------------------------------------------------------
(* Claims about simplify *)

\* C1: simplify is idempotent: a second simplify run on the result of the
\* first returns a tree that equals it.
C1_SimplifyIdempotent ==
    pc = "simplified2" => Equals(res, first)

\* C2: simplify preserves integer evaluation: under every binding of the
\* registers, simplify(x) has the value of x wherever x has one.
C2_SimplifyPreservesValue ==
    pc = "simplified" =>
        \A env \in Envs :
            Eval(x, env).ok => Eval(res, env) = Eval(x, env)

\* C3: simplify terminates normally: no pass of the loop ends in a fatal
\* error or a trap.
C3_SimplifyTerminatesNormally ==
    pc # "fatal"

-----------------------------------------------------------------------------
(* The free store.  An expression built with operator new is a set of       *)
(* cells; a cell holds the fields of one object: an Exp node with the       *)
(* addresses of its children, of its Type (TypedExp::type) and of its RTL   *)
(* (FlagDef::rtl), or a Type or RTL object.  Address 0 is the null pointer. *)
(* delete clears the live flag of a cell.                                   *)

ExpCell(cls, op, val, kids, ty, rtl) ==
    [kind |-> "Exp", live |-> TRUE, cls |-> cls, op |-> op, val |-> val,
     kids |-> kids, type |-> ty, rtl |-> rtl]
TypeCell(t) ==
    [kind |-> "Type", live |-> TRUE, cls |-> "Type", op |-> "", val |-> t,
     kids |-> <<>>, type |-> 0, rtl |-> 0]
RTLCell(r) ==
    [kind |-> "RTL", live |-> TRUE, cls |-> "RTL", op |-> "", val |-> r,
     kids |-> <<>>, type |-> 0, rtl |-> 0]

\* operator new: the new object gets the next address
Alloc(h, cell) == [h |-> Append(h, cell), p |-> Len(h) + 1]

\* The constructors applied bottom-up to the tree e (a caller building e):
\* new Binary(op, e1, e2) receives its children already built; a TypedExp
\* receives its Type object and a FlagDef its RTL object.
RECURSIVE New(_, _)
New(h, e) ==
    LET k1 == IF Len(e.kids) >= 1 THEN New(h, e.kids[1])
              ELSE [h |-> h, p |-> 0]
        k2 == IF Len(e.kids) >= 2 THEN New(k1.h, e.kids[2])
              ELSE [h |-> k1.h, p |-> 0]
        k3 == IF Len(e.kids) >= 3 THEN New(k2.h, e.kids[3])
              ELSE [h |-> k2.h, p |-> 0]
        ps == SubSeq(<<k1.p, k2.p, k3.p>>, 1, Len(e.kids))
    IN  CASE e.cls = "TypedExp" ->
                 LET t == Alloc(k3.h, TypeCell(e.val))
                 IN  Alloc(t.h, ExpCell(e.cls, e.op, 0, ps, t.p, 0))
          [] e.cls = "FlagDef" ->
                 LET r == Alloc(k3.h, RTLCell(e.val))
                 IN  Alloc(r.h, ExpCell(e.cls, e.op, 0, ps, 0, r.p))
          [] OTHER -> Alloc(k3.h, ExpCell(e.cls, e.op, e.val, ps, 0, 0))

\* The virtual clone() of the object at address p.  FlagDef has no clone of
\* its own and runs Unary::clone.  TypedExp::clone passes its own type
\* pointer to the constructor of the copy.
RECURSIVE CloneH(_, _)
CloneH(h, p) ==
    LET c == h[p]
        k1 == IF Len(c.kids) >= 1 THEN CloneH(h, c.kids[1])
              ELSE [h |-> h, p |-> 0]
        k2 == IF Len(c.kids) >= 2 THEN CloneH(k1.h, c.kids[2])
              ELSE [h |-> k1.h, p |-> 0]
        k3 == IF Len(c.kids) >= 3 THEN CloneH(k2.h, c.kids[3])
              ELSE [h |-> k2.h, p |-> 0]
    IN  CASE c.cls = "Const" ->
                 Alloc(h, ExpCell("Const", c.op, c.val, <<>>, 0, 0))
          [] c.cls = "Terminal" ->
                 Alloc(h, ExpCell("Terminal", c.op, 0, <<>>, 0, 0))
          [] c.cls \in {"Unary", "FlagDef"} ->
                 Alloc(k1.h, ExpCell("Unary", c.op, 0, <<k1.p>>, 0, 0))
          [] c.cls = "Binary" ->
                 Alloc(k2.h, ExpCell("Binary", c.op, 0, <<k1.p, k2.p>>, 0, 0))
          [] c.cls = "Ternary" ->
                 Alloc(k3.h, ExpCell("Ternary", c.op, 0,
                                     <<k1.p, k2.p, k3.p>>, 0, 0))
          [] c.cls = "TypedExp" ->
                 Alloc(k1.h, ExpCell("TypedExp", "opTypedExp", 0, <<k1.p>>,
                                     c.type, 0))
          [] c.cls = "AssignExp" ->
                 Alloc(k2.h, ExpCell("AssignExp", "opAssignExp", c.val,
                                     <<k1.p, k2.p>>, 0, 0))

\* delete of a Type or RTL object, or the memory of an Exp
Free(h, p) == [h EXCEPT ![p].live = FALSE]

\* delete p: the destructors of the object's class and of its bases, most
\* derived first (FlagDef deletes rtl, Ternary subExp3, Binary subExp2,
\* Unary subExp1; there is no destructor of TypedExp, so type stays), then
\* the memory of the object.
RECURSIVE Delete(_, _)
Delete(h, p) ==
    IF p = 0 THEN h
    ELSE LET c == h[p]
             h0 == IF c.cls = "FlagDef" THEN Free(h, c.rtl) ELSE h
             h3 == IF Len(c.kids) >= 3 THEN Delete(h0, c.kids[3]) ELSE h0
             h2 == IF Len(c.kids) >= 2 THEN Delete(h3, c.kids[2]) ELSE h3
             h1 == IF Len(c.kids) >= 1 THEN Delete(h2, c.kids[1]) ELSE h2
         IN  Free(h1, p)

\* TypedExp::setType on the object at p, with ty a Type the caller made
setType(h, p, ty) ==
    LET h1 == IF h[p].type # 0 THEN Free(h, h[p].type) ELSE h
    IN  [h1 EXCEPT ![p].type = ty]

\* the addresses of the objects reachable from the expression at p
RECURSIVE Reach(_, _)
Reach(h, p) ==
    IF p = 0 THEN {}
    ELSE {p} \cup (IF h[p].type # 0 THEN {h[p].type} ELSE {})
             \cup (IF h[p].rtl # 0 THEN {h[p].rtl} ELSE {})
             \cup UNION {Reach(h, h[p].kids[i]) : i \in DOMAIN h[p].kids}

\* the tree value of the expression at p
RECURSIVE ReadTree(_, _)
ReadTree(h, p) ==
    LET c == h[p]
    IN  [cls |-> c.cls, op |-> c.op,
         val |-> IF c.cls = "TypedExp" THEN h[c.type].val
                 ELSE IF c.cls = "FlagDef" THEN h[c.rtl].val
                 ELSE c.val,
         kids |-> [i \in DOMAIN c.kids |-> ReadTree(h, c.kids[i])]]

-----------------------------------------------------------------------------
(* clone, setType and delete on the free store *)

\* Type and RTL objects are told apart by their contents 1 .. NumHandles
NumHandles == 2
Handles == 1 .. NumHandles
Sizes == {16, 32}

CloneLeaves ==
    {Const(0), Const(1), FltConst(Dbl(1)), StrConst(<<1>>), Terminal("opPC")}

CloneLevel1(e) ==
    \/ e \in CloneLeaves
    \/ \E a \in CloneLeaves :
          \/ e = Unary("opNeg", a)
          \/ \E t \in Handles : e = TypedExp(t, a) \/ e = FlagDef(a, t)
          \/ \E b \in CloneLeaves :
                \/ e = Binary("opPlus", a, b)
                \/ e = Ternary("opTern", a, b, Const(0))
                \/ \E sz \in Sizes : e = AssignExp(sz, a, b)

CloneInput(e) ==
    \/ CloneLevel1(e)
    \/ \E a \in CloneLeaves :
          \/ \E b \in CloneLeaves : e = Ternary("opTern", Const(1), a, b)
          \/ \E l \in CloneLeaves, t \in Handles :
                \/ e = Unary("opMemOf", TypedExp(t, l))
                \/ e = Binary("opPlus", FlagDef(l, t), a)
                \/ e = TypedExp(t, Unary("opNeg", l))
                \/ e = TypedExp(t, TypedExp(t, l))
                \/ e = FlagDef(Binary("opPlus", l, a), t)
                \/ \E sz \in Sizes : e = AssignExp(sz, TypedExp(t, l), a)

InitClone ==
    /\ CloneInput(x)
    /\ heap = New(<<>>, x).h
    /\ xp = New(<<>>, x).p
    /\ yp = 0
    /\ pc = "built"
    /\ y = None /\ z = None /\ res = None /\ first = None
    /\ bMod = FALSE /\ passes = 0 /\ fatal = FALSE /\ out = <<>>

\* y = x->clone()
CloneStep ==
    /\ pc = "built"
    /\ LET r == CloneH(heap, xp)
       IN  heap' = r.h /\ yp' = r.p
    /\ pc' = "cloned"
    /\ UNCHANGED <<x, y, z, res, bMod, passes, first, fatal, out, xp>>

\* ((TypedExp*)y)->setType(new Type): the owner of the clone retypes it
SetTypeStep ==
    /\ pc = "cloned"
    /\ heap[yp].cls = "TypedExp"
    /\ \E t \in Handles :
          LET ty == Alloc(heap, TypeCell(t))
          IN  heap' = setType(ty.h, yp, ty.p)
    /\ pc' = "retyped"
    /\ UNCHANGED <<x, y, z, res, bMod, passes, first, fatal, out, xp, yp>>

\* delete y: the owner of the clone drops it
DeleteStep ==
    /\ pc \in {"cloned", "retyped"}
    /\ heap' = Delete(heap, yp)
    /\ pc' = "released"
    /\ UNCHANGED <<x, y, z, res, bMod, passes, first, fatal, out, xp, yp>>

NextClone == CloneStep \/ SetTypeStep \/ DeleteStep

SpecClone == InitClone /\ [][NextClone]_vars

-----------------------------------------------------------------------------
(* Claims about clone *)

\* two trees have the same variant, op and payload at every node
RECURSIVE SameNodes(_, _)
SameNodes(a, b) ==
    IF a.cls # b.cls \/ a.op # b.op \/ Len(a.kids) # Len(b.kids) THEN FALSE
    ELSE /\ a.val = b.val
         /\ \A i \in DOMAIN a.kids : SameNodes(a.kids[i], b.kids[i])

\* C4: clone(x) equals x and has the variant, op, payload, Typed type and
\* Assign size of x at every node, for x of every variant.
C4_CloneStructurallyEqual ==
    pc = "cloned" =>
        /\ Equals(ReadTree(heap, yp), x)
        /\ SameNodes(ReadTree(heap, yp), x)

\* C5: clone(x) shares no object with x (no node, no Type, no RTL), and
\* after the clone and what it owns is released every object of x is live
\* and x reads as before.
C5_CloneDisjoint ==
    /\ pc \in {"cloned", "retyped"} =>
           Reach(heap, xp) \cap Reach(heap, yp) = {}
    /\ pc \in {"retyped", "released"} =>
           /\ \A a \in Reach(heap, xp) : heap[a].live
           /\ ReadTree(heap, xp) = x

-----------------------------------------------------------------------------
(* operator== and operator< applied to three expressions *)

Wild == Terminal("opWild")

CmpLeaves ==
    {Const(0), Const(1), FltConst(Dbl(1)), FltConst(NaN), StrConst(<<1>>),
     Terminal("opPC"), Wild}
CmpKids == {Const(0), Const(1), Wild}
CmpConsts == {Const(0), Const(1)}

CmpInput(e) ==
    \/ e \in CmpLeaves
    \/ \E a \in CmpKids :
          \/ e = Unary("opNeg", a)
          \/ e = Unary("opFlagDef", a)
          \/ \E h \in Handles : e = FlagDef(a, h) \/ e = TypedExp(h, a)
          \/ \E b \in CmpKids :
                e = Binary("opPlus", a, b)
                  \/ e = Unary("opMemOf", Binary("opPlus", a, b))
    \/ \E a \in CmpConsts, b \in CmpConsts :
          \/ \E sz \in Sizes : e = AssignExp(sz, a, b)
          \/ \E c \in {Const(0), Wild} : e = Ternary("opTern", c, a, b)
    \/ e = AssignExp(32, Wild, Const(0))

InitCompare ==
    /\ CmpInput(x) /\ CmpInput(y) /\ CmpInput(z)
    /\ pc = "start"
    /\ out = <<>>
    /\ res = None /\ first = None
    /\ bMod = FALSE /\ passes = 0 /\ fatal = FALSE
    /\ heap = <<>> /\ xp = 0 /\ yp = 0

\* the caller evaluates *x == *x, *x == *y, ... and the matches with Wild
EqualsStep ==
    /\ pc = "start"
    /\ out' = [xx |-> Equals(x, x), xy |-> Equals(x, y), yx |-> Equals(y, x),
               yz |-> Equals(y, z), xz |-> Equals(x, z),
               wx |-> Equals(Wild, x), xw |-> Equals(x, Wild)]
    /\ pc' = "equalsDone"
    /\ UNCHANGED <<x, y, z, res, bMod, passes, first, fatal, heap, xp, yp>>

\* the caller evaluates *x < *y, *y < *x, ... and *x == *y
LessStep ==
    /\ pc = "start"
    /\ out' = [xy |-> Less(x, y), yx |-> Less(y, x), yz |-> Less(y, z),
               xz |-> Less(x, z), eq |-> Equals(x, y)]
    /\ pc' = "lessDone"
    /\ UNCHANGED <<x, y, z, res, bMod, passes, first, fatal, heap, xp, yp>>

NextCompare == EqualsStep \/ LessStep

SpecCompare == InitCompare /\ [][NextCompare]_vars

-----------------------------------------------------------------------------
(* Claims about operator== and operator< *)

RECURSIVE WildFree(_)
WildFree(e) ==
    e.op # "opWild" /\ \A i \in DOMAIN e.kids : WildFree(e.kids[i])

RECURSIVE NaNFree(_)
NaNFree(e) ==
    /\ e.op = "opFltConst" => ~e.val.nan
    /\ \A i \in DOMAIN e.kids : NaNFree(e.kids[i])

\* reflexive, symmetric and transitive on x, y, z; Typed nodes of different
\* type and Assign nodes of different size are unequal
IsEquivalence ==
    /\ out.xx
    /\ out.xy => out.yx
    /\ (out.xy /\ out.yz) => out.xz
    /\ (x.cls = "TypedExp" /\ y.cls = "TypedExp" /\ x.val # y.val) => ~out.xy
    /\ (x.cls = "AssignExp" /\ y.cls = "AssignExp" /\ x.val # y.val)
          => ~out.xy

\* C6 as stated: on expressions without Wild, equals is an equivalence
\* relation, type-sensitive for Typed and size-sensitive for Assign.
C6_EqualsEquivalence ==
    (pc = "equalsDone" /\ WildFree(x) /\ WildFree(y) /\ WildFree(z))
        => IsEquivalence

\* C6 amended: on expressions without Wild and without a NaN float
\* constant, equals is an equivalence relation, type-sensitive for Typed
\* and size-sensitive for Assign.
C6_EqualsEquivalenceNoNaN ==
    (/\ pc = "equalsDone"
     /\ WildFree(x) /\ WildFree(y) /\ WildFree(z)
     /\ NaNFree(x) /\ NaNFree(y) /\ NaNFree(z))
        => IsEquivalence

\* two equal pairs of Typed expressions, to which transitivity applies
C6_Witness ==
    /\ pc = "equalsDone"
    /\ WildFree(x) /\ WildFree(y) /\ WildFree(z)
    /\ NaNFree(x) /\ NaNFree(y) /\ NaNFree(z)
    /\ x.cls = "TypedExp"
    /\ out.xy /\ out.yz

\* p and q agree everywhere except under positions where either has Wild:
\* same op, constants of equal value, same Typed type, same Assign size,
\* and children that agree
RECURSIVE Agree(_, _)
Agree(p, q) ==
    IF p.op = "opWild" \/ q.op = "opWild" THEN TRUE
    ELSE IF p.op # q.op THEN FALSE
    ELSE /\ p.op = "opIntConst" => p.val = q.val
         /\ p.op = "opFltConst" => FltEq(p.val, q.val)
         /\ p.op = "opStrConst" => p.val = q.val
         /\ p.op \in {"opTypedExp", "opAssignExp"} => p.val = q.val
         /\ Len(p.kids) = Len(q.kids)
         /\ \A i \in DOMAIN p.kids : Agree(p.kids[i], q.kids[i])

C8_LessStrictTotalOrder ==
    (/\ pc = "lessDone"
     /\ WildFree(x) /\ WildFree(y) /\ WildFree(z)
     /\ NaNFree(x) /\ NaNFree(y) /\ NaNFree(z))
        => /\ (out.xy /\ ~out.yx /\ ~out.eq)
                \/ (~out.xy /\ out.yx /\ ~out.eq)
                \/ (~out.xy /\ ~out.yx /\ out.eq)
           /\ (out.xy /\ out.yz) => out.xz

-----------------------------------------------------------------------------
(* serialize / deserialize.  The stream is a sequence of numbers: one for   *)
(* a char, an int, an FID or a length, two for a double, the length and     *)
(* the bytes for a string.                                                  *)

\* the FID that closes an expression
FID_EXP_END == 255

\* saveValue(ouf, v, false) of a char or an int; saveFID; saveLen
saveValue(ouf, v) == Append(ouf, v)
saveFID(ouf, fid) == Append(ouf, fid)
saveLen(ouf, n) == Append(ouf, n)
\* saveValue(ouf, d, false) of a double: the bits of d
saveDouble(ouf, d) == ouf \o <<IF d.nan THEN 1 ELSE 0, d.v>>
\* saveString: the length, then the bytes
saveString(ouf, str) == Append(ouf, Len(str)) \o str
\* Type::serialize and RTL::serialize
TypeSerialize(ouf, t) == Append(ouf, t)
RTLSerialize(ouf, r) == Append(ouf, r)

\* (int)op and (OPER)iop
OperOfNum(n) ==
    IF \E o \in DOMAIN OperNum : OperNum[o] = n
      THEN CHOOSE o \in DOMAIN OperNum : OperNum[o] = n
      ELSE "opInvalid"

\* the tag characters 'C' 't' 'U' 'B' 'T' 'y' 'A' 'F'
Tag == [Const |-> 67, Terminal |-> 116, Unary |-> 85, Binary |-> 66,
        Ternary |-> 84, TypedExp |-> 121, AssignExp |-> 65, FlagDef |-> 70]

\* saveFID(ouf, FID_EXP_END); saveLen(ouf, 0)
EndExp(ouf) == saveLen(saveFID(ouf, FID_EXP_END), 0)

\* char ch = tag; saveValue(ouf, ch); saveValue(ouf, (int)op)
Head2(ouf, tag, op) == saveValue(saveValue(ouf, tag), OperNum[op])

RECURSIVE Serialize(_, _)

\* an AssignExp written with its size after the children
AssignExpSerializeSizeLast(e, ouf) ==
    EndExp(saveValue(Serialize(e.kids[2],
                               Serialize(e.kids[1],
                                         Head2(ouf, Tag.AssignExp, e.op))),
                     e.val))

\* Const::serialize
ConstSerialize(e, ouf) ==
    LET o == Head2(ouf, Tag.Const, e.op)
    IN  EndExp(CASE e.op = "opIntConst" -> saveValue(o, e.val)
                 [] e.op = "opFltConst" -> saveDouble(o, e.val)
                 [] e.op = "opStrConst" -> saveString(o, e.val)
                 [] OTHER -> o)

\* Terminal::serialize
TerminalSerialize(e, ouf) == EndExp(Head2(ouf, Tag.Terminal, e.op))

\* Unary::serialize
UnarySerialize(e, ouf) ==
    EndExp(Serialize(e.kids[1], Head2(ouf, Tag.Unary, e.op)))

\* Binary::serialize
BinarySerialize(e, ouf) ==
    EndExp(Serialize(e.kids[2],
                     Serialize(e.kids[1], Head2(ouf, Tag.Binary, e.op))))

\* Ternary::serialize
TernarySerialize(e, ouf) ==
    EndExp(Serialize(e.kids[3],
                     Serialize(e.kids[2],
                               Serialize(e.kids[1],
                                         Head2(ouf, Tag.Ternary, e.op)))))

\* TypedExp::serialize
TypedExpSerialize(e, ouf) ==
    EndExp(Serialize(e.kids[1],
                     TypeSerialize(Head2(ouf, Tag.TypedExp, e.op), e.val)))

\* AssignExp::serialize
AssignExpSerialize(e, ouf) ==
    EndExp(Serialize(e.kids[2],
                     Serialize(e.kids[1],
                               saveValue(Head2(ouf, Tag.AssignExp, e.op),
                                         e.val))))

\* FlagDef::serialize
FlagDefSerialize(e, ouf) ==
    EndExp(RTLSerialize(Serialize(e.kids[1],
                                  Head2(ouf, Tag.FlagDef, e.op)),
                        e.val))

\* e->serialize(ouf, len): the stream after the call
Serialize(e, ouf) ==
    CASE e.cls = "Const"     -> ConstSerialize(e, ouf)
      [] e.cls = "Terminal"  -> TerminalSerialize(e, ouf)
      [] e.cls = "Unary"     -> UnarySerialize(e, ouf)
      [] e.cls = "Binary"    -> BinarySerialize(e, ouf)
      [] e.cls = "Ternary"   -> TernarySerialize(e, ouf)
      [] e.cls = "TypedExp"  -> TypedExpSerialize(e, ouf)
      [] e.cls = "AssignExp" -> AssignExpSerialize(e, ouf)
      [] e.cls = "FlagDef"   -> FlagDefSerialize(e, ouf)

\* loadValue(inf, v, false) of a char or an int at the read position pos;
\* loadFID; loadLen.  Past the end of the stream nothing is read.
loadValue(inf, pos) ==
    IF pos <= Len(inf) THEN [v |-> inf[pos], pos |-> pos + 1]
    ELSE [v |-> 0, pos |-> pos]
loadFID(inf, pos) == loadValue(inf, pos)
loadLen(inf, pos) == loadValue(inf, pos)
\* loadValue(inf, d, false) of a double
loadDouble(inf, pos) ==
    LET n == loadValue(inf, pos)
        v == loadValue(inf, n.pos)
    IN  [v |-> [nan |-> n.v = 1, v |-> v.v], pos |-> v.pos]
\* loadString: the length, then that many bytes
loadString(inf, pos) ==
    LET n == loadValue(inf, pos)
        last == IF n.pos + n.v - 1 <= Len(inf) THEN n.pos + n.v - 1
                ELSE Len(inf)
    IN  [v |-> SubSeq(inf, n.pos, last), pos |-> last + 1]
\* Type::deserialize and RTL::deserialize
TypeDeserialize(inf, pos) == loadValue(inf, pos)
RTLDeserialize(inf, pos) == loadValue(inf, pos)

\* Exp* e = NULL
NullExp == [cls |-> "null", op |-> "opInvalid", val |-> 0, kids |-> <<>>]

DRet(e, pos, f) == [e |-> e, pos |-> pos, fatal |-> f]

\* Exp::deserialize from read position pos: the expression built (NullExp
\* for none), the read position after the call, and whether an assert
\* failed
RECURSIVE Deserialize(_, _)
Deserialize(inf, pos) ==
    LET ch == loadValue(inf, pos)
        iop == loadValue(inf, ch.pos)
        op == OperOfNum(iop.v)
        p0 == iop.pos
        e1 == Deserialize(inf, p0)
        e2 == Deserialize(inf, e1.pos)
        e3 == Deserialize(inf, e2.pos)
        body ==
          CASE ch.v = Tag.Const ->
                 CASE op = "opIntConst" ->
                          LET i == loadValue(inf, p0)
                          IN  DRet(Const(i.v), i.pos, FALSE)
                   [] op = "opFltConst" ->
                          LET d == loadDouble(inf, p0)
                          IN  DRet(FltConst(d.v), d.pos, FALSE)
                   [] op = "opStrConst" ->
                          LET str == loadString(inf, p0)
                          IN  DRet(StrConst(str.v), str.pos, FALSE)
                   [] OTHER -> DRet(NullExp, p0, FALSE)
            [] ch.v = Tag.Terminal -> DRet(Terminal(op), p0, FALSE)
            [] ch.v = Tag.Unary ->
                 DRet(Unary(op, e1.e), e1.pos, e1.fatal)
            [] ch.v = Tag.Binary ->
                 DRet(Binary(op, e1.e, e2.e), e2.pos, e1.fatal \/ e2.fatal)
            [] ch.v = Tag.Ternary ->
                 DRet(Ternary(op, e1.e, e2.e, e3.e), e3.pos,
                      e1.fatal \/ e2.fatal \/ e3.fatal)
            [] ch.v = Tag.TypedExp ->
                 LET t == TypeDeserialize(inf, p0)
                     k == Deserialize(inf, t.pos)
                 IN  DRet(TypedExp(t.v, k.e), k.pos, k.fatal)
            [] ch.v = Tag.AssignExp ->
                 LET sz == loadValue(inf, p0)
                     k1 == Deserialize(inf, sz.pos)
                     k2 == Deserialize(inf, k1.pos)
                 IN  DRet(AssignExp(sz.v, k1.e, k2.e), k2.pos,
                          k1.fatal \/ k2.fatal)
            [] ch.v = Tag.FlagDef ->
                 LET r == RTLDeserialize(inf, e1.pos)
                 IN  DRet(FlagDef(e1.e, r.v), r.pos, e1.fatal)
            [] OTHER -> DRet(NullExp, p0, FALSE)
        fid == loadFID(inf, body.pos)
        len == loadLen(inf, fid.pos)
    IN  IF body.fatal \/ body.e.cls = "null" THEN body
        ELSE IF fid.v # FID_EXP_END THEN DRet(body.e, fid.pos, TRUE)
        ELSE IF len.v # 0 THEN DRet(body.e, len.pos, TRUE)
        ELSE DRet(body.e, len.pos, FALSE)

-----------------------------------------------------------------------------
(* Writing an expression to a stream and reading it back *)

SerInput(e) ==
    \/ CloneInput(e)
    \/ e \in {Wild, FltConst(NaN), StrConst(<<>>), StrConst(<<1, 2>>),
              Unary("opNeg", FltConst(NaN)), Unary("opFlagDef", Const(0)),
              Binary("opPlus", StrConst(<<1, 2>>), Const(-1))}

\* out is the stream: its contents buf, the write position st at which
\* serialize starts, the len serialize reports, the read position pos
InitSerialize ==
    /\ SerInput(x)
    /\ \E pre \in {<<>>, <<FID_EXP_END>>} :
          out = [buf |-> pre, st |-> Len(pre), len |-> 0, pos |-> 0]
    /\ pc = "start"
    /\ y = None /\ z = None /\ res = None /\ first = None
    /\ bMod = FALSE /\ passes = 0 /\ fatal = FALSE
    /\ heap = <<>> /\ xp = 0 /\ yp = 0

\* x->serialize(ouf, len)
SerializeStep ==
    /\ pc = "start"
    /\ LET ouf == Serialize(x, out.buf)
       IN  out' = [out EXCEPT !.buf = ouf, !.len = Len(ouf) - out.st]
    /\ pc' = "serialized"
    /\ UNCHANGED <<x, y, z, res, bMod, passes, first, fatal, heap, xp, yp>>

\* res = Exp::deserialize(inf), reading from where serialize started
DeserializeStep ==
    /\ pc = "serialized"
    /\ LET r == Deserialize(out.buf, out.st + 1)
       IN  /\ res' = r.e
           /\ fatal' = r.fatal
           /\ out' = [out EXCEPT !.pos = r.pos]
    /\ pc' = "deserialized"
    /\ UNCHANGED <<x, y, z, bMod, passes, first, heap, xp, yp>>

NextSerialize == SerializeStep \/ DeserializeStep

SpecSerialize == InitSerialize /\ [][NextSerialize]_vars

-----------------------------------------------------------------------------
(* Claims about serialization *)

\* the stream from position st on ends with the end marker and length 0,
\* and the read position is just past the last byte written
ConsumedExactly ==
    /\ ~fatal
    /\ out.pos = Len(out.buf) + 1
    /\ out.len = Len(out.buf) - out.st
    /\ out.buf[Len(out.buf) - 1] = FID_EXP_END
    /\ out.buf[Len(out.buf)] = 0

\* C9 as stated: deserialize(serialize(x)) equals x, with the same tags,
\* ops, payloads, sizes and children, and consumes exactly the bytes
\* written.
C9_RoundTrip ==
    pc = "deserialized" =>
        /\ ConsumedExactly
        /\ SameNodes(res, x)
        /\ Equals(res, x)

\* C9 amended: deserialize(serialize(x)) has the same tags, ops, payloads,
\* sizes and children as x and consumes exactly the bytes written; it
\* equals x when x has no NaN float constant.
C9_RoundTripNoNaN ==
    pc = "deserialized" =>
        /\ ConsumedExactly
        /\ SameNodes(res, x)
        /\ NaNFree(x) => Equals(res, x)

\* an Assign with a Typed left side was written after other data and read
\* back
C9_Witness ==
    /\ pc = "deserialized"
    /\ x.cls = "AssignExp"
    /\ x.kids[1].cls = "TypedExp"
    /\ out.st > 0
    /\ res = x

-----------------------------------------------------------------------------
(* search.  A node of the searched expression is named by its path from     *)
(* the root (the Exp** of the code: the place that points to the node);     *)
(* li is the list of paths of the matches.                                  *)

RECURSIVE doSearch(_, _, _, _, _)

\* Binary::doSearchChildren looking into subExp2 first
BinarySearchChildrenRightFirst(search, e, path, li, once) ==
    LET l2 == doSearch(search, e.kids[2], Append(path, 2), li, once)
    IN  IF once /\ Len(l2) # 0 THEN l2
        ELSE doSearch(search, e.kids[1], Append(path, 1), l2, once)

\* Unary::doSearchChildren (FlagDef inherits it), TypedExp::doSearchChildren
UnarySearchChildren(search, e, path, li, once) ==
    doSearch(search, e.kids[1], Append(path, 1), li, once)

\* Binary::doSearchChildren
BinarySearchChildren(search, e, path, li, once) ==
    LET l1 == doSearch(search, e.kids[1], Append(path, 1), li, once)
    IN  IF once /\ Len(l1) # 0 THEN l1
        ELSE doSearch(search, e.kids[2], Append(path, 2), l1, once)

\* Ternary::doSearchChildren
TernarySearchChildren(search, e, path, li, once) ==
    LET l1 == doSearch(search, e.kids[1], Append(path, 1), li, once)
        l2 == doSearch(search, e.kids[2], Append(path, 2), l1, once)
    IN  IF once /\ Len(l1) # 0 THEN l1
        ELSE IF once /\ Len(l2) # 0 THEN l2
        ELSE doSearch(search, e.kids[3], Append(path, 3), l2, once)

\* AssignExp::doSearchChildren
AssignExpSearchChildren(search, e, path, li, once) ==
    doSearch(search, e.kids[2], Append(path, 2),
             doSearch(search, e.kids[1], Append(path, 1), li, once), once)

\* pSrc->doSearchChildren(search, li, once): the virtual function of the
\* class of e; Const and Terminal have the empty one of Exp
doSearchChildren(search, e, path, li, once) ==
    CASE e.cls \in {"Const", "Terminal"} -> li
      [] e.cls \in {"Unary", "FlagDef", "TypedExp"} ->
             UnarySearchChildren(search, e, path, li, once)
      [] e.cls = "Binary" -> BinarySearchChildren(search, e, path, li, once)
      [] e.cls = "Ternary" -> TernarySearchChildren(search, e, path, li, once)
      [] e.cls = "AssignExp" ->
             AssignExpSearchChildren(search, e, path, li, once)

\* Exp::doSearch on the node e found at path
doSearch(search, e, path, li, once) ==
    LET compare == Equals(search, e)
        li1 == IF compare THEN Append(li, path) ELSE li
    IN  IF compare /\ once THEN li1
        ELSE doSearchChildren(search, e, path, li1, once)

\* Exp::search: the return value and result (no path for the null pointer)
search(e, pattern) ==
    LET li == doSearch(pattern, e, <<>>, <<>>, FALSE)
    IN  IF Len(li) # 0 THEN [found |-> TRUE, result |-> <<Head(li)>>]
        ELSE [found |-> FALSE, result |-> <<>>]

\* Exp::searchAll: the return value and the result list
searchAll(e, pattern) ==
    LET li == doSearch(pattern, e, <<>>, <<>>, FALSE)
    IN  [found |-> Len(li) # 0, result |-> li]

SearchPatterns ==
    {Wild, Const(0), Const(1), Terminal("opPC"), Unary("opNeg", Wild),
     Unary("opNeg", Const(0)), Binary("opPlus", Wild, Wild),
     Binary("opPlus", Wild, Const(0)), Binary("opPlus", Const(1), Wild),
     Ternary("opTern", Wild, Const(0), Wild), Unary("opFlagDef", Wild),
     Unary("opMemOf", Wild), StrConst(<<1>>)}
    \cup {TypedExp(t, Wild) : t \in Handles}
    \cup {AssignExp(sz, Wild, Wild) : sz \in Sizes}

SearchKids == {Const(0), Const(1), Terminal("opPC")}

SearchInput(e) ==
    \/ CloneInput(e)
    \/ \E a \in SearchKids, b \in SearchKids :
          \/ e = Unary("opNeg", Unary("opNeg", a))
          \/ e = Binary("opPlus", Binary("opPlus", a, b),
                        Binary("opPlus", b, Const(0)))
          \/ e = Binary("opPlus", Unary("opNeg", a), Unary("opNeg", b))
          \/ e = Ternary("opTern", Unary("opNeg", a), Const(0),
                         Unary("opNeg", b))
          \/ e = Ternary("opTern", Ternary("opTern", a, Const(0), b),
                         Unary("opNeg", a), Binary("opPlus", b, Const(0)))
          \/ \E sz \in Sizes :
                e = AssignExp(sz, Unary("opMemOf", Binary("opPlus", a, b)),
                              Binary("opPlus", a, Const(0)))

InitSearch ==
    /\ SearchInput(x)
    /\ y \in SearchPatterns
    /\ pc = "start"
    /\ out = <<>>
    /\ z = None /\ res = None /\ first = None
    /\ bMod = FALSE /\ passes = 0 /\ fatal = FALSE
    /\ heap = <<>> /\ xp = 0 /\ yp = 0

\* x->searchAll(y, result)
SearchAllStep ==
    /\ pc = "start"
    /\ LET r == searchAll(x, y)
       IN  out' = r.result /\ bMod' = r.found
    /\ pc' = "searchedAll"
    /\ UNCHANGED <<x, y, z, res, passes, first, fatal, heap, xp, yp>>

\* x->search(y, result)
SearchStep ==
    /\ pc = "start"
    /\ LET r == search(x, y)
       IN  out' = r.result /\ bMod' = r.found
    /\ pc' = "searched"
    /\ UNCHANGED <<x, y, z, res, passes, first, fatal, heap, xp, yp>>

NextSearch == SearchAllStep \/ SearchStep

SpecSearch == InitSearch /\ [][NextSearch]_vars

-----------------------------------------------------------------------------
(* Claims about search *)

\* the node of e at path
RECURSIVE SubAt(_, _)
SubAt(e, path) ==
    IF path = <<>> THEN e ELSE SubAt(e.kids[Head(path)], Tail(path))

\* the paths of all nodes of e in pre-order: the node, then its children's
\* nodes from the first child to the last; path is the path of e
RECURSIVE PreOrder(_, _)
PreOrder(e, path) ==
    LET sub(i) == PreOrder(e.kids[i], Append(path, i))
    IN  <<path>> \o (IF Len(e.kids) >= 1 THEN sub(1) ELSE <<>>)
                 \o (IF Len(e.kids) >= 2 THEN sub(2) ELSE <<>>)
                 \o (IF Len(e.kids) >= 3 THEN sub(3) ELSE <<>>)

\* the nodes of x that the pattern y equals, in pre-order
MatchesInPreOrder ==
    LET IsMatch(path) == Equals(y, SubAt(x, path))
    IN  SelectSeq(PreOrder(x, <<>>), IsMatch)

\* C10: searchAll lists exactly the nodes of x that equal the pattern, in
\* pre-order (nested matches included); search returns the first of them,
\* or false and a null result when there is none.
C10_SearchPreOrder ==
    /\ pc = "searchedAll" =>
           /\ out = MatchesInPreOrder
           /\ bMod = (MatchesInPreOrder # <<>>)
    /\ pc = "searched" =>
           /\ bMod = (MatchesInPreOrder # <<>>)
           /\ out = IF MatchesInPreOrder = <<>> THEN <<>>
                    ELSE <<Head(MatchesInPreOrder)>>

\* searchAll found a node, a match nested inside it, and a match in a
\* later sibling
C10_Witness ==
    /\ pc = "searchedAll"
    /\ Len(out) >= 3
    /\ \E i \in DOMAIN out, j \in DOMAIN out, k \in DOMAIN out :
          /\ i < j /\ j < k
          /\ Len(out[i]) < Len(out[j])
          /\ SubSeq(out[j], 1, Len(out[i])) = out[i]
          /\ Len(out[k]) >= 1 /\ Len(out[j]) >= 1
          /\ out[k][1] > out[j][1]

-----------------------------------------------------------------------------
(* searchReplace and searchReplaceAll on the free store *)

\* the address of the node of the expression at p found at path
RECURSIVE NodeAt(_, _, _)
NodeAt(h, p, path) ==
    IF path = <<>> THEN p
    ELSE NodeAt(h, h[p].kids[Head(path)], Tail(path))

\* li.push_back(&pSrc): the Exp** of the node found at path.  pSrc is the
\* local variable top for the root (owner 0) and the field subExp<idx> of
\* the parent object for every other node.
SlotOf(h, top, path) ==
    IF path = <<>> THEN [owner |-> 0, idx |-> 0]
    ELSE [owner |-> NodeAt(h, top, SubSeq(path, 1, Len(path) - 1)),
          idx |-> path[Len(path)]]

\* The outcomes of using an object after its delete: the memory still
\* holds what it held and the program goes on ("stale"), or the program is
\* stopped ("abort").
FreedOutcomes == {"stale", "abort"}

\* *pp
ReadSlot(st, pp) ==
    IF pp.owner = 0 THEN st.top ELSE st.h[pp.owner].kids[pp.idx]

\* *pp = q
WriteSlot(st, pp, q) ==
    IF pp.owner = 0 THEN [st EXCEPT !.top = q]
    ELSE [st EXCEPT !.h[pp.owner].kids[pp.idx] = q]

\* The loop of searchReplaceAll over li from element i.  st.touched records
\* that an object was used after its delete; st.done that the function
\* returned.
RECURSIVE replaceLoop(_, _, _, _, _, _)
replaceLoop(st, li, i, replace, once, fo) ==
    IF i > Len(li) THEN [st EXCEPT !.change = (Len(li) # 0), !.done = TRUE]
    ELSE LET pp == li[i]
             ownerFreed == pp.owner # 0 /\ ~st.h[pp.owner].live
             cur == ReadSlot(st, pp)
             curFreed == cur # 0 /\ ~st.h[cur].live
         IN  IF ownerFreed /\ fo = "abort"
               THEN [st EXCEPT !.touched = TRUE]
             ELSE IF curFreed /\ fo = "abort"
               THEN [st EXCEPT !.touched = TRUE]
             ELSE LET h1 == Delete(st.h, cur)
                      c  == CloneH(h1, replace)
                      s2 == WriteSlot([st EXCEPT !.h = c.h,
                                          !.touched = @ \/ ownerFreed
                                                        \/ curFreed],
                                      pp, c.p)
                  IN  IF once THEN [s2 EXCEPT !.change = TRUE,
                                              !.done = TRUE]
                      ELSE replaceLoop(s2, li, i + 1, replace, once, fo)

\* Exp::searchReplaceAll on the expression at this, with the pattern given
\* as a tree and the replacement as an object
searchReplaceAll(h, this, pattern, replace, once, fo) ==
    LET paths == doSearch(pattern, ReadTree(h, this), <<>>, <<>>, FALSE)
        li == [k \in DOMAIN paths |-> SlotOf(h, this, paths[k])]
    IN  replaceLoop([h |-> h, top |-> this, change |-> FALSE,
                     touched |-> FALSE, done |-> FALSE],
                    li, 1, replace, once, fo)

\* searchReplace calling searchReplaceAll without once
searchReplaceEvery(h, this, pattern, replace, fo) ==
    searchReplaceAll(h, this, pattern, replace, FALSE, fo)

\* Exp::searchReplace
searchReplace(h, this, pattern, replace, fo) ==
    searchReplaceAll(h, this, pattern, replace, TRUE, fo)

Replacements ==
    {Const(1), Unary("opNeg", Const(0)), Binary("opPlus", Const(0), Const(1))}
    \cup {TypedExp(t, Terminal("opPC")) : t \in Handles}

\* x is the expression searched, y the pattern, z the replacement; x and z
\* are separate objects on the free store
InitReplace ==
    /\ SearchInput(x)
    /\ y \in SearchPatterns
    /\ z \in Replacements
    /\ LET a == New(<<>>, x)
           b == New(a.h, z)
       IN  heap = b.h /\ xp = a.p /\ yp = b.p
    /\ pc = "start"
    /\ out = <<>>
    /\ res = None /\ first = None
    /\ bMod = FALSE /\ passes = 0 /\ fatal = FALSE

\* top = x->searchReplace(y, z, change)
SearchReplaceStep ==
    /\ pc = "start"
    /\ \E fo \in FreedOutcomes :
          LET r == searchReplace(heap, xp, y, yp, fo)
          IN  /\ heap' = r.h /\ bMod' = r.change /\ fatal' = r.touched
              /\ out' = <<r.top>>
              /\ pc' = IF r.done THEN "replaced" ELSE "aborted"
    /\ UNCHANGED <<x, y, z, res, passes, first, xp, yp>>

\* top = x->searchReplaceAll(y, z, change)
SearchReplaceAllStep ==
    /\ pc = "start"
    /\ \E fo \in FreedOutcomes :
          LET r == searchReplaceAll(heap, xp, y, yp, FALSE, fo)
          IN  /\ heap' = r.h /\ bMod' = r.change /\ fatal' = r.touched
              /\ out' = <<r.top>>
              /\ pc' = IF r.done THEN "replacedAll" ELSE "aborted"
    /\ UNCHANGED <<x, y, z, res, passes, first, xp, yp>>

NextReplace == SearchReplaceStep \/ SearchReplaceAllStep

SpecReplace == InitReplace /\ [][NextReplace]_vars

-----------------------------------------------------------------------------
(* Claims about searchReplace and searchReplaceAll *)

\* the free store before the call: x, then z
HeapBefore == New(New(<<>>, x).h, z).h

\* the tree e with the node at path replaced by r
RECURSIVE ReplaceAt(_, _, _)
ReplaceAt(e, path, r) ==
    IF path = <<>> THEN r
    ELSE [e EXCEPT !.kids[Head(path)] =
              ReplaceAt(e.kids[Head(path)], Tail(path), r)]

\* C11: searchReplace replaces exactly the first node of x in pre-order
\* that the pattern equals by a new clone of the replacement and leaves
\* every other node of x, later matches included, and the replacement as
\* they were; change is true exactly when there is a match; without a match
\* the returned pointer is x and nothing on the free store has changed.
C11_ReplaceFirstOnly ==
    pc = "replaced" =>
        LET top == out[1]
            before == HeapBefore
        IN  /\ bMod = (MatchesInPreOrder # <<>>)
            /\ ~fatal
            /\ ReadTree(heap, yp) = z
            /\ MatchesInPreOrder = <<>> => top = xp /\ heap = before
            /\ MatchesInPreOrder # <<>> =>
                  LET path == Head(MatchesInPreOrder)
                      old == NodeAt(before, xp, path)
                      slot == SlotOf(before, xp, path)
                      new == NodeAt(heap, top, path)
                      gone == Reach(before, old)
                  IN  /\ ReadTree(heap, top) = ReplaceAt(x, path, Clone(z))
                      /\ new > Len(before)
                      /\ path # <<>> => top = xp
                      /\ \A a \in DOMAIN before :
                            a \notin gone /\ a # slot.owner =>
                                heap[a] = before[a]
                      /\ slot.owner # 0 =>
                            heap[slot.owner] =
                                [before[slot.owner]
                                    EXCEPT !.kids[slot.idx] = new]

\* searchReplace replaced the first of two or more matches, and that match
\* was below the root
C11_Witness ==
    /\ pc = "replaced"
    /\ Len(MatchesInPreOrder) >= 2
    /\ Head(MatchesInPreOrder) # <<>>
    /\ ~Equals(y, Clone(z))
    /\ bMod

\* the matches that lie inside no other match
OutermostMatches ==
    LET M == MatchesInPreOrder
        Inside(p, q) == Len(q) < Len(p) /\ SubSeq(p, 1, Len(q)) = q
        Outer(p) == \A k \in DOMAIN M : ~Inside(p, M[k])
    IN  SelectSeq(M, Outer)

\* C12: searchReplaceAll uses no object after an earlier replacement of
\* the same call has released it, nested matches included, and in the
\* result every match of the pattern in x is replaced by a clone of the
\* replacement of its own.
C12_ReplaceAllSafe ==
    /\ pc \in {"replacedAll", "aborted"} => ~fatal
    /\ pc = "replacedAll" =>
          LET O == OutermostMatches
              at(i) == NodeAt(heap, out[1], O[i])
          IN  \A i \in DOMAIN O :
                  /\ at(i) > Len(HeapBefore)
                  /\ ReadTree(heap, at(i)) = Clone(z)
                  /\ \A j \in DOMAIN O : i # j => at(i) # at(j)

-----------------------------------------------------------------------------
(* partitionTerms, simplifyArith and Accumulate on + and - trees *)

\* the terms that are not integer constants
ArithTerms ==
    {Unary("opRegOf", Const(0)), Unary("opRegOf", Const(1)),
     Unary("opMemOf", Unary("opRegOf", Const(0)))}

ArithLeaves ==
    ArithTerms \cup {Const(1), Const(IntMin)}
    \cup {TypedExp(1, Unary("opRegOf", Const(0)))}

ArithOps == {"opPlus", "opMinus"}

\* a leaf, or one + or - over leaves
ArithLevel1 ==
    ArithLeaves \cup {Binary(o, a, b) : o \in ArithOps, a, b \in ArithLeaves}

\* (r28 + 100) - (r28 + 92)
ArithExample ==
    Binary("opMinus",
           Binary("opPlus", Unary("opRegOf", Const(28)), Const(100)),
           Binary("opPlus", Unary("opRegOf", Const(28)), Const(92)))

\* the expressions given to partitionTerms and simplifyArith: + and - at
\* the top, TypedExp around some of the sums
ArithInput(e) ==
    \/ e = ArithExample
    \/ \E o \in ArithOps, a \in ArithLevel1, b \in ArithLevel1 :
          \/ e = Binary(o, a, b)
          \/ e = Binary(o, TypedExp(1, a), b)

InitArith ==
    /\ ArithInput(x)
    /\ pc = "start"
    /\ out = <<>>
    /\ y = None /\ z = None /\ res = None /\ first = None
    /\ bMod = FALSE /\ passes = 0 /\ fatal = FALSE
    /\ heap = <<>> /\ xp = 0 /\ yp = 0

\* x->partitionTerms(positives, negatives, integers, false)
PartitionStep ==
    /\ pc = "start"
    /\ out' = <<partitionTerms(x, EmptyPartition, FALSE)>>
    /\ pc' = "partitioned"
    /\ UNCHANGED <<x, y, z, res, bMod, passes, first, fatal, heap, xp, yp>>

\* res = Exp::Accumulate(positives) on the list partitionTerms made
AccumulateStep ==
    /\ pc = "partitioned"
    /\ res' = Accumulate(out[1].positives)
    /\ pc' = "accumulated"
    /\ UNCHANGED <<x, y, z, bMod, passes, first, fatal, out, heap, xp, yp>>

\* res = x->simplifyArith()
SimplifyArithStep ==
    /\ pc = "start"
    /\ res' = simplifyArith(x)
    /\ pc' = "arith"
    /\ UNCHANGED <<x, y, z, bMod, passes, first, fatal, out, heap, xp, yp>>

NextArith == PartitionStep \/ AccumulateStep \/ SimplifyArithStep

SpecArith == InitArith /\ [][NextArith]_vars

-----------------------------------------------------------------------------
(* Claims about partitionTerms, simplifyArith and Accumulate *)

\* the 32-bit values the terms are bound to
BindInts == {1, -1, IntMin}
Bindings == [ArithTerms \cup {Unary("opRegOf", Const(28))} -> BindInts]

\* the value of a tree of +, - and TypedExp over integer constants and
\* bound terms, in 32-bit arithmetic
RECURSIVE ArithValue(_, _)
ArithValue(e, bind) ==
    CASE e.op = "opPlus" ->
             AddW(ArithValue(e.kids[1], bind), ArithValue(e.kids[2], bind))
      [] e.op = "opMinus" ->
             SubW(ArithValue(e.kids[1], bind), ArithValue(e.kids[2], bind))
      [] e.op = "opTypedExp" -> ArithValue(e.kids[1], bind)
      [] e.op = "opIntConst" -> e.val
      [] OTHER -> bind[e]

\* the sum of the values of the terms of a list
RECURSIVE SumTerms(_, _)
SumTerms(s, bind) ==
    IF s = <<>> THEN 0
    ELSE AddW(ArithValue(Head(s), bind), SumTerms(Tail(s), bind))

IsArithInner(e) == e.op \in {"opPlus", "opMinus", "opTypedExp"}

\* the paths of the leaf terms of e in pre-order: the nodes that are not
\* +, - or TypedExp and have only such nodes above them
LeafPaths(e) ==
    LET IsLeaf(p) ==
            /\ ~IsArithInner(SubAt(e, p))
            /\ \A n \in 0 .. Len(p) - 1 : IsArithInner(SubAt(e, SubSeq(p, 1, n)))
    IN  SelectSeq(PreOrder(e, <<>>), IsLeaf)

\* the leaf at path p of e is the right operand of an odd number of -
UnderOddMinus(e, p) ==
    Cardinality({n \in 1 .. Len(p) :
                    /\ p[n] = 2
                    /\ SubAt(e, SubSeq(p, 1, n - 1)).op = "opMinus"}) % 2 = 1

\* C13: partitionTerms puts every leaf term of x in exactly one list exactly
\* once, in order: a term under an even number of right operands of - in
\* positives, under an odd number in negatives, an integer constant in
\* integers with its sign flipped when odd; and for every binding the sum
\* of positives minus the sum of negatives plus the sum of integers is the
\* value of x.
C13_PartitionConservation ==
    pc = "partitioned" =>
        LET part == out[1]
            LP == LeafPaths(x)
            IsInt(p) == SubAt(x, p).op = "opIntConst"
            IsPos(p) == ~IsInt(p) /\ ~UnderOddMinus(x, p)
            IsNeg(p) == ~IsInt(p) /\ UnderOddMinus(x, p)
            pos == SelectSeq(LP, IsPos)
            neg == SelectSeq(LP, IsNeg)
            int == SelectSeq(LP, IsInt)
        IN  /\ part.positives = [i \in DOMAIN pos |-> SubAt(x, pos[i])]
            /\ part.negatives = [i \in DOMAIN neg |-> SubAt(x, neg[i])]
            /\ part.integers =
                  [i \in DOMAIN int |->
                      IF UnderOddMinus(x, int[i])
                        THEN NegW(SubAt(x, int[i]).val)
                        ELSE SubAt(x, int[i]).val]
            /\ \A bind \in Bindings :
                  AddW(SubW(SumTerms(part.positives, bind),
                            SumTerms(part.negatives, bind)),
                       SumInts(part.integers))
                      = ArithValue(x, bind)

\* partitionTerms went through a TypedExp and through a - on the right of a
\* -, and filled all three lists
C13_Witness ==
    /\ pc = "partitioned"
    /\ x.op = "opMinus" /\ x.kids[1].op = "opTypedExp"
    /\ x.kids[2].op = "opMinus"
    /\ x.kids[2].kids[2].op # "opIntConst"
    /\ Len(out[1].positives) >= 2
    /\ Len(out[1].negatives) >= 1
    /\ Len(out[1].integers) >= 1

\* C14: in the result of simplifyArith on a tree rooted at + or - no term
\* left on the positive side equals a term left on the negative side,
\* wherever the two stood in the lists, and the terms left keep the order
\* they had in x.
C14_CancellationComplete ==
    pc = "arith" =>
        LET before == partitionTerms(x, EmptyPartition, FALSE)
            after == partitionTerms(res, EmptyPartition, FALSE)
            IsSubseq(s, t) ==
                \E f \in [DOMAIN s -> DOMAIN t] :
                    /\ \A i \in DOMAIN s : s[i] = t[f[i]]
                    /\ \A i \in DOMAIN s, j \in DOMAIN s :
                          i < j => f[i] < f[j]
        IN  /\ \A i \in DOMAIN after.positives :
                  \A j \in DOMAIN after.negatives :
                      ~Equals(after.positives[i], after.negatives[j])
            /\ IsSubseq(after.positives, before.positives)
            /\ IsSubseq(after.negatives, before.negatives)

\* the number of integer constants among the leaf terms of e
NumIntLeaves(e) ==
    Cardinality({i \in DOMAIN LeafPaths(e) :
                    SubAt(e, LeafPaths(e)[i]).op = "opIntConst"})

\* a chain e1 + (e2 + (... + en)) of the elements of a list of two or more
RECURSIVE RightChain(_)
RightChain(s) ==
    IF Len(s) = 2 THEN Binary("opPlus", s[1], s[2])
    ELSE Binary("opPlus", Head(s), RightChain(Tail(s)))

\* C15: simplifyArith on a tree rooted at + or - keeps the value of the
\* tree under every binding and leaves at most one integer constant among
\* the terms of the result, (r28 + 100) - (r28 + 92) becoming 8; Accumulate
\* is 0 for the empty list, the clone of the element for a list of one, and
\* the right-associated chain of + in list order otherwise.
C15_SimplifyArithValue ==
    /\ pc = "arith" =>
          /\ \A bind \in Bindings :
                ArithValue(res, bind) = ArithValue(x, bind)
          /\ NumIntLeaves(res) <= 1
          /\ x = ArithExample => res = Const(8)
    /\ pc = "accumulated" =>
          LET s == out[1].positives
          IN  /\ Len(s) = 0 => res = Const(0)
              /\ Len(s) = 1 => res = Clone(s[1])
              /\ Len(s) >= 2 =>
                    res = RightChain([i \in DOMAIN s |-> Clone(s[i])])

\* simplifyArith cancelled the only two terms and summed two integers
C15_Witness ==
    /\ pc = "arith"
    /\ Len(partitionTerms(x, EmptyPartition, FALSE).integers) = 2
    /\ Len(partitionTerms(x, EmptyPartition, FALSE).positives) = 1
    /\ Len(partitionTerms(x, EmptyPartition, FALSE).negatives) = 1
    /\ res.op = "opIntConst"

-----------------------------------------------------------------------------
(* simplifyAddr, fixSuccessor and killFill *)

\* Exp::simplifyAddr of Const and Terminal
ExpSimplifyAddr(e) == e

RECURSIVE simplifyAddr(_)

\* Unary::simplifyAddr (FlagDef inherits it)
UnarySimplifyAddr(e) ==
    IF e.op # "opAddrOf"
      THEN [e EXCEPT !.kids[1] = simplifyAddr(e.kids[1])]
    ELSE IF e.kids[1].op = "opMemOf"
      THEN e.kids[1].kids[1]
    ELSE IF e.kids[1].op = "opSize" /\ e.kids[1].kids[2].op = "opMemOf"
      THEN e.kids[1].kids[2].kids[1]
    ELSE [e EXCEPT !.kids[1] = simplifyAddr(e.kids[1])]

\* Binary::simplifyAddr, AssignExp::simplifyAddr
BinarySimplifyAddr(e) ==
    [e EXCEPT !.kids[1] = simplifyAddr(e.kids[1]),
              !.kids[2] = simplifyAddr(e.kids[2])]

\* Ternary::simplifyAddr
TernarySimplifyAddr(e) ==
    [e EXCEPT !.kids[1] = simplifyAddr(e.kids[1]),
              !.kids[2] = simplifyAddr(e.kids[2]),
              !.kids[3] = simplifyAddr(e.kids[3])]

\* TypedExp::simplifyAddr
TypedExpSimplifyAddr(e) == [e EXCEPT !.kids[1] = simplifyAddr(e.kids[1])]

\* e->simplifyAddr(): the virtual function of the class of e
simplifyAddr(e) ==
    CASE e.cls \in {"Const", "Terminal"} -> ExpSimplifyAddr(e)
      [] e.cls \in {"Unary", "FlagDef"} -> UnarySimplifyAddr(e)
      [] e.cls \in {"Binary", "AssignExp"} -> BinarySimplifyAddr(e)
      [] e.cls = "Ternary" -> TernarySimplifyAddr(e)
      [] e.cls = "TypedExp" -> TypedExpSimplifyAddr(e)

\* new Ternary(opWild): a Ternary with no subexpressions
TernaryWild == [cls |-> "Ternary", op |-> "opWild", val |-> 0, kids |-> <<>>]

\* the static patterns of fixSuccessor and killFill
succRegOf == Unary("opSuccessor", Unary("opRegOf", Wild))
srch1 == Ternary("opZfill", TernaryWild, TernaryWild, TernaryWild)
srch2 == Ternary("opSgnEx", TernaryWild, TernaryWild, TernaryWild)

\* the record the functions on the free store return: the new free store,
\* the pointer returned, whether an object was used after its delete and
\* whether the function returned
Returned(h, top) ==
    [h |-> h, top |-> top, change |-> FALSE, touched |-> FALSE,
     done |-> TRUE]

\* Exp::fixSuccessor of Const and Terminal
ExpFixSuccessor(h, this, fo) == Returned(h, this)

\* Unary::fixSuccessor (every class with subexpressions inherits it)
UnaryFixSuccessor(h, this, fo) ==
    LET s == search(ReadTree(h, this), succRegOf)
    IN  IF ~s.found THEN Returned(h, this)
        ELSE LET result == NodeAt(h, this, s.result[1])
                 sub1 == h[result].kids[1]
                 sub2 == h[sub1].kids[1]
             IN  IF h[sub2].op # "opIntConst"
                   THEN [Returned(h, this) EXCEPT !.done = FALSE]
                 ELSE LET replace == CloneH(h, sub1)
                          c == replace.h[replace.p].kids[1]
                          h2 == [replace.h EXCEPT
                                    ![c].val = AddW(replace.h[c].val, 1)]
                      IN  searchReplace(h2, this, ReadTree(h2, result),
                                        replace.p, fo)

\* this->fixSuccessor()
fixSuccessor(h, this, fo) ==
    IF h[this].cls \in {"Const", "Terminal"}
      THEN ExpFixSuccessor(h, this, fo)
      ELSE UnaryFixSuccessor(h, this, fo)

\* Ternary::becomeSubExp3 on the object at p: the free store after it and
\* the pointer returned
becomeSubExp3(h, p) ==
    LET r == h[p].kids[3]
        h1 == [h EXCEPT ![p].kids[3] = 0]
    IN  [h |-> Delete(h1, p), p |-> r]

\* The loop of Exp::killFill over the list of Exp** from element i
RECURSIVE killLoop(_, _, _, _)
killLoop(st, li, i, fo) ==
    IF i > Len(li) THEN st
    ELSE LET pp == li[i]
             ownerFreed == pp.owner # 0 /\ ~st.h[pp.owner].live
             cur == ReadSlot(st, pp)
             curFreed == cur # 0 /\ ~st.h[cur].live
             st1 == [st EXCEPT !.touched = @ \/ ownerFreed \/ curFreed]
         IN  IF (ownerFreed \/ curFreed) /\ fo = "abort"
               THEN [st1 EXCEPT !.done = FALSE]
             ELSE IF cur = 0
               THEN [st1 EXCEPT !.done = FALSE]
             ELSE LET b == becomeSubExp3(st1.h, cur)
                  IN  killLoop(WriteSlot([st1 EXCEPT !.h = b.h], pp, b.p),
                               li, i + 1, fo)

\* Exp::killFill
killFill(h, this, fo) ==
    LET e == ReadTree(h, this)
        p1 == doSearch(srch1, e, <<>>, <<>>, FALSE)
        p2 == doSearch(srch2, e, <<>>, p1, FALSE)
        result == [k \in DOMAIN p2 |-> SlotOf(h, this, p2[k])]
    IN  killLoop(Returned(h, this), result, 1, fo)

FixLeaves == {Unary("opRegOf", Const(0)), Const(1), Terminal("opPC")}

Size(s, e) == Binary("opSize", Const(s), e)
Zfill(e) == Ternary("opZfill", Const(8), Const(32), e)
SgnEx(e) == Ternary("opSgnEx", Const(8), Const(32), e)

\* a leaf, or one of the forms the three functions look for
FixTerms ==
    FixLeaves
    \cup {Unary(o, l) : o \in {"opAddrOf", "opMemOf"}, l \in FixLeaves}
    \cup {Unary("opAddrOf", Unary("opMemOf", l)) : l \in FixLeaves}
    \cup {Unary("opAddrOf", Size(16, Unary("opMemOf", l))) : l \in FixLeaves}
    \cup {Unary("opAddrOf", Size(16, l)) : l \in FixLeaves}
    \cup {Unary("opSuccessor", Unary("opRegOf", Const(k))) : k \in {0, 7}}
    \cup {Unary("opSuccessor", Unary("opRegOf", Unary("opRegOf", Const(0)))),
          Unary("opSuccessor", Const(1))}
    \cup {Zfill(l) : l \in FixLeaves} \cup {SgnEx(l) : l \in FixLeaves}

\* a term, or an operator over terms
FixInput(e) ==
    \/ e \in FixTerms
    \/ \E a \in FixTerms :
          \/ \E o \in {"opAddrOf", "opMemOf", "opNeg"} : e = Unary(o, a)
          \/ e = Unary("opAddrOf", Unary("opMemOf", a))
          \/ e = Unary("opAddrOf", Size(16, Unary("opMemOf", a)))
          \/ e = Zfill(a) \/ e = SgnEx(a)
          \/ e = Ternary("opZfill", a, Const(32), Const(1))
          \/ e = TypedExp(1, a)
          \/ e = FlagDef(a, 1)
          \/ \E b \in FixTerms :
                \/ e = Binary("opPlus", a, b)
                \/ e = AssignExp(32, a, b)
                \/ e = Ternary("opTern", Const(1), a, b)

InitFix ==
    /\ FixInput(x)
    /\ heap = New(<<>>, x).h
    /\ xp = New(<<>>, x).p
    /\ yp = 0
    /\ pc = "start"
    /\ out = <<>>
    /\ y = None /\ z = None /\ res = None /\ first = None
    /\ bMod = FALSE /\ passes = 0 /\ fatal = FALSE

\* res = x->simplifyAddr()
SimplifyAddrStep ==
    /\ pc = "start"
    /\ res' = simplifyAddr(x)
    /\ pc' = "addr"
    /\ UNCHANGED <<x, y, z, bMod, passes, first, fatal, out, heap, xp, yp>>

\* res = x->fixSuccessor()
FixSuccessorStep ==
    /\ pc = "start"
    /\ \E fo \in FreedOutcomes :
          LET r == fixSuccessor(heap, xp, fo)
          IN  /\ heap' = r.h /\ fatal' = r.touched /\ out' = <<r.top>>
              /\ res' = IF r.done THEN ReadTree(r.h, r.top) ELSE None
              /\ pc' = IF r.done THEN "succ" ELSE "succAborted"
    /\ UNCHANGED <<x, y, z, bMod, passes, first, xp, yp>>

\* res = x->killFill()
KillFillStep ==
    /\ pc = "start"
    /\ \E fo \in FreedOutcomes :
          LET r == killFill(heap, xp, fo)
          IN  /\ heap' = r.h /\ fatal' = r.touched /\ out' = <<r.top>>
              /\ res' = IF r.done THEN ReadTree(r.h, r.top) ELSE None
              /\ pc' = IF r.done THEN "filled" ELSE "fillAborted"
    /\ UNCHANGED <<x, y, z, bMod, passes, first, xp, yp>>

NextFix == SimplifyAddrStep \/ FixSuccessorStep \/ KillFillStep

SpecFix == InitFix /\ [][NextFix]_vars

-----------------------------------------------------------------------------
(* Claims about simplifyAddr, fixSuccessor and killFill *)

\* e with every node rewritten by Rule, children first
RECURSIVE RewriteAll(_, _)
RewriteAll(e, rule) ==
    LET kids == [i \in DOMAIN e.kids |-> RewriteAll(e.kids[i], rule)]
        e1 == [e EXCEPT !.kids = kids]
    IN  CASE rule = "addr" ->
                 IF e1.op = "opAddrOf" /\ e1.kids[1].op = "opMemOf"
                   THEN e1.kids[1].kids[1]
                 ELSE IF /\ e1.op = "opAddrOf" /\ e1.kids[1].op = "opSize"
                         /\ e1.kids[1].kids[2].op = "opMemOf"
                   THEN e1.kids[1].kids[2].kids[1]
                 ELSE e1
          [] rule = "succ" ->
                 IF /\ e1.op = "opSuccessor" /\ e1.kids[1].op = "opRegOf"
                    /\ e1.kids[1].kids[1].op = "opIntConst"
                   THEN Unary("opRegOf",
                              Const(AddW(e1.kids[1].kids[1].val, 1)))
                 ELSE e1
          [] rule = "fill" ->
                 IF e1.op \in {"opZfill", "opSgnEx"} THEN e1.kids[3] ELSE e1

\* the nodes of e, as trees
Nodes(e) == {SubAt(e, PreOrder(e, <<>>)[i]) : i \in DOMAIN PreOrder(e, <<>>)}

\* C16: the result of simplifyAddr has no a[m[..]] and no a[size(s, m[..])]
\* node, also for such a node inside the operand of another one, and is x
\* with exactly these nodes replaced by their innermost operand.
C16_AddrInverseRemoved ==
    pc = "addr" =>
        /\ \A n \in Nodes(res) :
              n.op = "opAddrOf" =>
                  /\ n.kids[1].op # "opMemOf"
                  /\ ~(n.kids[1].op = "opSize" /\
                       n.kids[1].kids[2].op = "opMemOf")
        /\ res = RewriteAll(x, "addr")

\* every succ(r[..]) of e has an integer constant as register number
SuccOfConstOnly(e) ==
    \A n \in Nodes(e) :
        (n.op = "opSuccessor" /\ n.kids[1].op = "opRegOf")
            => n.kids[1].kids[1].op = "opIntConst"

\* C17: fixSuccessor returns x with every succ(r[k]), k an integer
\* constant, rewritten to r[k+1], two or more occurrences included, and the
\* rest as it was.
C17_EverySuccessorFixed ==
    /\ pc = "succAborted" => ~SuccOfConstOnly(x)
    /\ (pc = "succ" /\ SuccOfConstOnly(x)) =>
          /\ res = RewriteAll(x, "succ")
          /\ \A n \in Nodes(res) :
                ~(n.op = "opSuccessor" /\ n.kids[1].op = "opRegOf")

\* C18: killFill uses no child slot of an object it has released, a
\* wrapper nested in another wrapper included, and returns x with every
\* zfill and sgnex node replaced by its third operand.
C18_KillFillSafe ==
    /\ pc \in {"filled", "fillAborted"} => ~fatal
    /\ pc # "fillAborted"
    /\ pc = "filled" => res = RewriteAll(x, "fill")

-----------------------------------------------------------------------------
(* AssignExp::doReplaceUse *)

\* the most iterations of the loop of Exp::simplify the model follows
MaxPasses == 6

\* Exp::simplify: polySimplify until a pass leaves bMod false; n counts the
\* passes made.  (A stage written r \in {..} is a value computed once.)
RECURSIVE simplify(_, _, _)
simplify(e, ub, n) ==
    CHOOSE s \in
        {IF r.fatal THEN [e |-> r.e, fatal |-> TRUE, done |-> FALSE]
         ELSE IF ~r.bMod THEN [e |-> r.e, fatal |-> FALSE, done |-> TRUE]
         ELSE IF n + 1 >= MaxPasses
           THEN [e |-> r.e, fatal |-> FALSE, done |-> FALSE]
         ELSE simplify(r.e, ub, n + 1) :
            r \in {polySimplify(e, FALSE, ub)}} : TRUE

\* e->searchReplaceAll(left, right, change) for e and right given as trees:
\* both are put on a free store, and the tree at the returned pointer is
\* read back
searchReplaceAllTree(e, left, right, fo) ==
    CHOOSE s \in
        {[e |-> IF r.done THEN ReadTree(r.h, r.top) ELSE e,
          touched |-> r.touched, done |-> r.done] :
            r \in {LET a == New(<<>>, e)
                       b == New(a.h, right)
                   IN  searchReplaceAll(b.h, a.p, left, b.p, FALSE, fo)}} :
        TRUE

\* subExp1->isMemOf()
isMemOf(e) == e.op = "opMemOf"

\* AssignExp::doReplaceUse on the assignment this for the statement use
\* with sides left and right: r2 is the replacement in subExp2, r1 the one
\* in the clone of the address of a m[..] left side, a the assignment
\* after the two calls of simplifyArith, s what simplify makes of it
doReplaceUse(this, left, right, ub, fo) ==
    LET subExp1(r1) == IF isMemOf(this.kids[1])
                         THEN setSubExp1(this.kids[1], r1.e)
                         ELSE this.kids[1]
        Finish(r1, r2, s) ==
            IF ~(r1.done /\ r2.done)
              THEN [e |-> [this EXCEPT !.kids = <<subExp1(r1), r2.e>>],
                    touched |-> r1.touched \/ r2.touched,
                    fatal |-> FALSE, done |-> FALSE]
              ELSE [e |-> s.e, touched |-> r1.touched \/ r2.touched,
                    fatal |-> s.fatal, done |-> s.done]
    IN  CHOOSE r \in UNION UNION
            {{{Finish(r1, r2, s) : s \in {simplify(a, ub, 0)}} :
                a \in {[this EXCEPT !.kids = <<simplifyArith(subExp1(r1)),
                                               simplifyArith(r2.e)>>]}} :
              r2 \in {searchReplaceAllTree(this.kids[2], left, right, fo)},
              r1 \in {IF isMemOf(this.kids[1])
                        THEN searchReplaceAllTree(
                                 Clone(this.kids[1].kids[1]), left, right, fo)
                        ELSE [e |-> None, touched |-> FALSE,
                              done |-> TRUE]}} : TRUE

R0 == Unary("opRegOf", Const(0))
R1 == Unary("opRegOf", Const(1))

\* the left sides of the statement whose definition is used
UseLefts == {R0, Unary("opMemOf", R0), Unary("opMemOf", Binary("opPlus", R0, Const(2)))}

\* its right sides
UseRights ==
    {Const(1), R1, Binary("opPlus", R1, Const(1)), Unary("opMemOf", R1)}

\* the left sides of the assignment
AssignLefts ==
    {R0, R1, Unary("opRegOf", Binary("opPlus", Const(0), Const(0))),
     Unary("opMemOf", R0), Unary("opMemOf", Unary("opMemOf", R0)),
     Unary("opMemOf", Binary("opPlus", R0, Const(2))),
     Unary("opMemOf", Binary("opPlus", Binary("opPlus", R0, Const(1)),
                             Const(1)))}

\* the right sides of the assignment
AssignRights ==
    {Const(1), R0, R1, Unary("opMemOf", R0), Unary("opNeg", R0),
     Binary("opPlus", R0, Const(1)), Binary("opPlus", R0, R0),
     Binary("opMult", R0, R1), Binary("opMinus", R1, R0),
     Binary("opPlus", Unary("opMemOf", R0), R0),
     Unary("opMemOf", Unary("opMemOf", R0)),
     Unary("opMemOf", Binary("opPlus", R0, Const(2))),
     Unary("opMemOf", Binary("opPlus", Binary("opPlus", R0, Const(1)),
                             Const(1))),
     Binary("opPlus", Unary("opMemOf", Binary("opPlus", R0, Const(2))),
            Unary("opMemOf", Binary("opPlus", R0, Const(2)))),
     Unary("opRegOf", Binary("opPlus", Const(0), Const(0))),
     TypedExp(1, R0)}

\* x is the assignment, y and z the left and right side of the statement
\* used
InitUse ==
    /\ \E l \in AssignLefts, r \in AssignRights : x = AssignExp(32, l, r)
    /\ y \in UseLefts
    /\ z \in UseRights
    /\ pc = "start"
    /\ out = <<>>
    /\ res = None /\ first = None
    /\ bMod = FALSE /\ passes = 0 /\ fatal = FALSE
    /\ heap = <<>> /\ xp = 0 /\ yp = 0

\* x->doReplaceUse(use)
DoReplaceUseStep ==
    /\ pc = "start"
    /\ \E ub \in UBOutcomes, fo \in FreedOutcomes :
          \E r \in {doReplaceUse(x, y, z, ub, fo)} :
              /\ res' = r.e
              /\ fatal' = (r.fatal \/ r.touched)
              /\ pc' = IF r.done THEN "used" ELSE "useAborted"
    /\ UNCHANGED <<x, y, z, bMod, passes, first, out, heap, xp, yp>>

\* x->usesExp(y) on the assignment doReplaceUse left
UsesExpStep ==
    /\ pc = "used"
    /\ bMod' = (search(res.kids[2], y).found
                \/ (isMemOf(res.kids[1])
                    /\ search(res.kids[1].kids[1], y).found))
    /\ pc' = "asked"
    /\ UNCHANGED <<x, y, z, res, passes, first, fatal, out, heap, xp, yp>>

NextUse == DoReplaceUseStep \/ UsesExpStep

SpecUse == InitUse /\ [][NextUse]_vars

-----------------------------------------------------------------------------
(* Claims about doReplaceUse *)

\* some node of e is structurally equal to p
Occurs(p, e) == \E n \in Nodes(e) : Equals(p, n)

\* C19: after doReplaceUse with a statement whose left side y has no
\* wildcard and does not occur in its right side z, the right side of the
\* assignment holds no subtree equal to y, and if its left side is m[..]
\* neither does the address under it, in the state the function leaves;
\* a left side that is not m[..] is the one simplification alone gives.
C19_NoUseLeft ==
    (pc = "used" /\ WildFree(y) /\ ~Occurs(y, z)) =>
        /\ ~Occurs(y, res.kids[2])
        /\ (isMemOf(x.kids[1]) /\ isMemOf(res.kids[1]))
              => ~Occurs(y, res.kids[1].kids[1])
        /\ ~isMemOf(x.kids[1]) =>
              \E ub \in UBOutcomes :
                  res.kids[1] =
                      simplify(AssignExp(32, simplifyArith(x.kids[1]),
                                         Const(0)), ub, 0).e.kids[1]

-----------------------------------------------------------------------------
(* operator%= : equality ignoring type *)

\* TypedExp::operator%= comparing the receiver as it is
TypedExpEqualsIgnoringTypeAsIs(e, o) ==
    LET typeless == IF getOper(o) = "opTypedExp" THEN o.kids[1] ELSE o
    IN  Equals(e, typeless)

\* Exp::operator%= (every class but TypedExp)
ExpEqualsIgnoringType(e, o) ==
    LET typeless == IF o.op = "opTypedExp" THEN o.kids[1] ELSE o
    IN  Equals(e, typeless)

\* TypedExp::operator%=
TypedExpEqualsIgnoringType(e, o) ==
    LET typeless == IF getOper(o) = "opTypedExp" THEN o.kids[1] ELSE o
    IN  Equals(e.kids[1], typeless)

\* *e %= *o: the virtual operator%= of e's class
EqualsIgnoringType(e, o) ==
    IF e.cls = "TypedExp" THEN TypedExpEqualsIgnoringType(e, o)
    ELSE ExpEqualsIgnoringType(e, o)

\* the expressions compared: those of the comparisons above, and a
\* TypedExp of a TypedExp
IgnoreTypeInput(e) ==
    \/ CmpInput(e)
    \/ \E h \in Handles, g \in Handles, a \in CmpKids :
          e = TypedExp(h, TypedExp(g, a))

InitIgnoreType ==
    /\ IgnoreTypeInput(x) /\ IgnoreTypeInput(y)
    /\ z = None
    /\ pc = "start"
    /\ out = <<>>
    /\ res = None /\ first = None
    /\ bMod = FALSE /\ passes = 0 /\ fatal = FALSE
    /\ heap = <<>> /\ xp = 0 /\ yp = 0

\* the caller evaluates *x %= *y
IgnoreTypeStep ==
    /\ pc = "start"
    /\ bMod' = EqualsIgnoringType(x, y)
    /\ pc' = "ignored"
    /\ UNCHANGED <<x, y, z, res, passes, first, fatal, out, heap, xp, yp>>

NextIgnoreType == IgnoreTypeStep

SpecIgnoreType == InitIgnoreType /\ [][NextIgnoreType]_vars

-----------------------------------------------------------------------------
(* Claims about operator%= *)

\* y with one TypedExp taken off, if it has one
Unwrapped(e) == IF e.op = "opTypedExp" THEN e.kids[1] ELSE e

\* C20: for x and y without Wild, x %= y is x == c when y is a TypedExp
\* with child c and x == y otherwise; the receiver is compared as it is, so
\* a TypedExp receiver is not equal ignoring type to an argument that is not
\* a TypedExp.
C20_IgnoreTypeArgumentOnly ==
    (pc = "ignored" /\ WildFree(x) /\ WildFree(y)) =>
        /\ bMod = Equals(x, Unwrapped(y))
        /\ (x.op = "opTypedExp" /\ y.op # "opTypedExp") => ~bMod

\* C20 amended: for x and y without Wild, a receiver that is not a
\* TypedExp is compared as it is, x %= y being x == c when y is a TypedExp
\* with child c and x == y otherwise; a TypedExp receiver with child d is
\* unwrapped once as well, x %= y being d == c or d == y, so it is equal
\* ignoring type to an argument without type that equals its child.
C20_IgnoreTypeBothSides ==
    (pc = "ignored" /\ WildFree(x) /\ WildFree(y)) =>
        /\ x.op # "opTypedExp" => bMod = Equals(x, Unwrapped(y))
        /\ x.op = "opTypedExp" =>
              bMod = Equals(Unwrapped(x), Unwrapped(y))

\* a TypedExp receiver found equal ignoring type to an argument that is not
\* a TypedExp
C20_Witness ==
    /\ pc = "ignored"
    /\ WildFree(x) /\ WildFree(y)
    /\ x.op = "opTypedExp" /\ y.op # "opTypedExp"
    /\ bMod

-----------------------------------------------------------------------------
(* One call of polySimplify on a node whose children are leaves *)

\* the integer constants of a folded node: the extremes of int, the small
\* values around zero and the largest shift count
FoldInts == {IntMin, -2, -1, 0, 1, 2, 31, IntMax}

\* the operators a Ternary is built with
TernaryOps ==
    {"opTern", "opAt", "opTruncu", "opZfill", "opSgnEx", "opFsize", "opItof"}

PolyKids == {Const(0), Const(1), Const(2), Unary("opRegOf", Const(0))}

\* k1 op k2, or a Ternary over leaves
PolyInput(e) ==
    \/ \E o \in SimpBinaryOps, k1, k2 \in FoldInts :
          e = Binary(o, Const(k1), Const(k2))
    \/ \E o \in TernaryOps, c, a, b \in PolyKids : e = Ternary(o, c, a, b)

InitPoly ==
    /\ PolyInput(x)
    /\ y = None /\ z = None
    /\ pc = "poly"
    /\ res = x
    /\ bMod = FALSE
    /\ passes = 0
    /\ first = None
    /\ fatal = FALSE
    /\ out = <<>>
    /\ heap = <<>>
    /\ xp = 0
    /\ yp = 0

\* res = x->polySimplify(bMod), with bMod false before the call
PolySimplifyStep ==
    /\ pc = "poly"
    /\ \E ub \in UBOutcomes :
          \E r \in {polySimplify(x, FALSE, ub)} :
              /\ res' = r.e
              /\ bMod' = r.bMod
              /\ fatal' = r.fatal
              /\ pc' = IF r.fatal THEN "polyFatal" ELSE "polyDone"
    /\ UNCHANGED <<x, y, z, passes, first, out, heap, xp, yp>>

NextPoly == PolySimplifyStep

SpecPoly == InitPoly /\ [][NextPoly]_vars

-----------------------------------------------------------------------------
(* Claims about one polySimplify call *)

\* x is k1 op k2 with op one of ops
IsFoldOf(ops) ==
    /\ x.cls = "Binary" /\ x.op \in ops
    /\ x.kids[1].op = "opIntConst" /\ x.kids[2].op = "opIntConst"

\* C21: for integer constants k1 and k2 with k2 not 0, polySimplify folds
\* Div(k1, k2) to the unsigned 32-bit quotient and Mod(k1, k2) to the
\* unsigned 32-bit remainder, both read back as int, and folds Divs and Mods
\* to the signed quotient and remainder (INT_MIN / -1, which has no int
\* quotient, left aside).
C21_UnsignedFoldSeparate ==
    (/\ pc = "polyDone"
     /\ IsFoldOf({"opDiv", "opMod", "opDivs", "opMods"})
     /\ getInt(x.kids[2]) # 0)
    => LET k1 == getInt(x.kids[1])
           k2 == getInt(x.kids[2])
       IN  /\ x.op = "opDiv" => res = Const(DivU(k1, k2))
           /\ x.op = "opMod" => res = Const(ModU(k1, k2))
           /\ (x.op = "opDivs" /\ ~DivTraps(k1, k2))
                 => res = Const(DivS(k1, k2))
           /\ (x.op = "opMods" /\ ~DivTraps(k1, k2))
                 => res = Const(ModS(k1, k2))

\* C22: folding ShiftRA(k1, k2) with 0 <= k2 < 32 yields k1 shifted right
\* with copies of its sign bit coming in: the result is not negative when k1
\* is not negative, and a shift by 0 yields k1.
C22_ShiftRAArithmetic ==
    (/\ pc = "polyDone"
     /\ IsFoldOf({"opShiftRA"})
     /\ getInt(x.kids[2]) >= 0 /\ getInt(x.kids[2]) < 32)
    => LET k1 == getInt(x.kids[1])
           k2 == getInt(x.kids[2])
       IN  /\ res = Const(SarW(k1, k2, "x86"))
           /\ k1 >= 0 => getInt(res) >= 0
           /\ k2 = 0 => res = Const(k1)

\* C23: polySimplify replaces a Ternary by its first child only when its op
\* is opTern and its second and third children are the integer constants 1
\* and 0; every other Ternary keeps its root.
C23_TernaryOnlyConditional ==
    (pc = "polyDone" /\ x.cls = "Ternary")
    => IF x.op = "opTern" /\ x.kids[2] = Const(1) /\ x.kids[3] = Const(0)
         THEN res = x.kids[1]
         ELSE res = x

-----------------------------------------------------------------------------
(* Exp::simplify on sums, differences and products *)

CanonInts == {-1, 0, 1, 2, IntMin}

\* expressions that simplify leaves as they are and that are no constants
CanonTerms ==
    {R0, R1, Unary("opMemOf", R0), Binary("opPlus", R0, R1),
     Binary("opMult", R0, Const(2)), Unary("opNeg", R0),
     Binary("opPlus", R0, Const(1)), TypedExp(1, R0)}

CanonLeaves == {Const(0), Const(1), Const(2), R0, R1, TypedExp(1, Const(1))}

CanonLevel1 ==
    CanonLeaves
    \cup {Unary("opNeg", l) : l \in CanonLeaves}
    \cup {Binary(o, l1, l2) :
              o \in {"opPlus", "opMinus", "opMult"}, l1, l2 \in CanonLeaves}

\* a + or * with a leaf on one side and an operator on the other
CanonSums ==
    {Binary(o, s, l) :
         o \in {"opPlus", "opMult"}, s \in CanonLevel1, l \in CanonLeaves}
    \cup {Binary(o, l, s) :
         o \in {"opPlus", "opMult"}, s \in CanonLevel1, l \in CanonLeaves}

\* a - k, a sum or product, or m[..] of one
CanonInput(e) ==
    \/ \E a \in CanonTerms, k \in CanonInts : e = Binary("opMinus", a, Const(k))
    \/ e \in CanonSums
    \/ \E s \in CanonSums : e = Unary("opMemOf", s)

InitCanon ==
    /\ CanonInput(x)
    /\ y = None /\ z = None
    /\ pc = "canon"
    /\ res = x
    /\ bMod = FALSE
    /\ passes = 0
    /\ first = None
    /\ fatal = FALSE
    /\ out = <<>>
    /\ heap = <<>>
    /\ xp = 0
    /\ yp = 0

\* res = x->simplify()
SimplifyStep ==
    /\ pc = "canon"
    /\ \E ub \in UBOutcomes :
          \E r \in {simplify(x, ub, 0)} :
              /\ res' = r.e
              /\ fatal' = r.fatal
              /\ pc' = IF r.fatal THEN "canonFatal"
                       ELSE IF r.done THEN "canonDone"
                       ELSE "canonOpen"
    /\ UNCHANGED <<x, y, z, bMod, passes, first, out, heap, xp, yp>>

NextCanon == SimplifyStep

SpecCanon == InitCanon /\ [][NextCanon]_vars

-----------------------------------------------------------------------------
(* Claims about the canonical form simplify leaves *)

\* C24: for a simplified x that is no constant and an integer k,
\* simplify(x - k) is x when k is 0 and x + (-k) otherwise, the negated
\* value being the value of the constant.
C24_MinusConstCanonical ==
    (/\ pc = "canonDone"
     /\ x.op = "opMinus"
     /\ x.kids[1] \in CanonTerms
     /\ x.kids[2].op = "opIntConst")
    => LET a == x.kids[1]
           k == getInt(x.kids[2])
       IN  IF k = 0 THEN res = a
           ELSE res = Binary("opPlus", a, Const(NegW(k)))

-----------------------------------------------------------------------------
(* simplifyArith on a node that is no sum: the children are sums *)

\* r[0], a constant, and sums that simplifyArith reduces
FrameKids ==
    {R0, Const(1),
     Binary("opPlus", Binary("opPlus", R0, Const(1)), Const(1)),
     Binary("opMinus", Binary("opPlus", R0, R1), R0),
     Unary("opMemOf", Binary("opPlus", Const(1), Const(1)))}

\* a node whose root is not +, -, r[], m[] or an assignment
FrameInput(e) ==
    \/ \E o \in {"opMult", "opBitAnd", "opLess", "opEquals"},
          a, b \in FrameKids : e = Binary(o, a, b)
    \/ \E o \in {"opTern", "opAt"}, a, b, c \in FrameKids :
          e = Ternary(o, a, b, c)
    \/ \E o \in {"opNeg", "opNot", "opAddrOf"}, a \in FrameKids :
          e = Unary(o, a)
    \/ \E a \in FrameKids : e = TypedExp(1, a)
    \/ e \in {Const(1), Terminal("opPC")}

InitFrame ==
    /\ FrameInput(x)
    /\ pc = "start"
    /\ out = <<>>
    /\ y = None /\ z = None /\ res = None /\ first = None
    /\ bMod = FALSE /\ passes = 0 /\ fatal = FALSE
    /\ heap = <<>> /\ xp = 0 /\ yp = 0

SpecFrame == InitFrame /\ [][NextArith]_vars

\* the roots simplifyArith rebuilds
AdditiveRoots ==
    {"opPlus", "opMinus", "opRegOf", "opMemOf", "opAssignExp"}

\* C25 as stated: when the root of x is not Plus, Minus, RegOf, MemOf or
\* Assign, simplifyArith(x) is structurally equal to x, whatever its
\* children are.
C25_NonAdditiveUnchanged ==
    (pc = "arith" /\ x.op \notin AdditiveRoots) => res = x

\* C25: when the root of x is not Plus, Minus, RegOf, MemOf or Assign,
\* simplifyArith(x) keeps the root; a Unary, Typed, constant or terminal
\* root comes back equal to x, and a Binary or Ternary root comes back with
\* its first and second child replaced by what simplifyArith makes of them,
\* the third child of a Ternary being left as it is.
C25_NonAdditiveKeepsRoot ==
    (pc = "arith" /\ x.op \notin AdditiveRoots)
    => /\ res.cls = x.cls /\ res.op = x.op /\ res.val = x.val
       /\ Len(res.kids) = Len(x.kids)
       /\ x.cls \notin {"Binary", "Ternary"} => res = x
       /\ x.cls \in {"Binary", "Ternary"} =>
             /\ res.kids[1] = simplifyArith(x.kids[1])
             /\ res.kids[2] = simplifyArith(x.kids[2])
       /\ x.cls = "Ternary" => res.kids[3] = x.kids[3]

\* a product whose first child was a sum that simplifyArith reduced, and a
\* Typed node over such a sum that came back as it was
C25_Witness ==
    /\ pc = "arith"
    /\ \/ /\ x.op = "opMult" /\ x.kids[1].op = "opPlus"
          /\ res.kids[1] = Binary("opPlus", R0, Const(2))
       \/ /\ x.op = "opTypedExp" /\ x.kids[1].op = "opPlus" /\ res = x

-----------------------------------------------------------------------------
(* operator== and operator< applied to three Ternary expressions *)

TernKids == {Const(0), Const(1)}

TernInput(e) ==
    \E o \in {"opTern", "opAt"}, a, b, c \in TernKids : e = Ternary(o, a, b, c)

InitTernLess ==
    /\ TernInput(x) /\ TernInput(y) /\ TernInput(z)
    /\ pc = "start"
    /\ out = <<>>
    /\ res = None /\ first = None
    /\ bMod = FALSE /\ passes = 0 /\ fatal = FALSE
    /\ heap = <<>> /\ xp = 0 /\ yp = 0

SpecTernLess == InitTernLess /\ [][NextCompare]_vars

\* the lists of children a and b in lexicographic order: the first position
\* where they differ decides
LexLess(a, b) ==
    \E i \in DOMAIN a :
        /\ \A j \in 1 .. i - 1 : a[j] = b[j]
        /\ Less(a[i], b[i])

\* C26: less on two Ternary nodes with the same op is the lexicographic
\* order on children 1, 2, 3, so two nodes that differ only in their second
\* child are ordered one way or the other.
C26_TernaryLessLexicographic ==
    (pc = "lessDone" /\ x.cls = "Ternary" /\ y.cls = "Ternary"
     /\ x.op = y.op)
    => /\ out.xy = LexLess(x.kids, y.kids)
       /\ (/\ x.kids[1] = y.kids[1] /\ x.kids[3] = y.kids[3]
           /\ x.kids[2] # y.kids[2])
             => (out.xy \/ out.yx)

-----------------------------------------------------------------------------
(* simplifyArith and clone on the free store: which objects the returned    *)
(* expression is made of                                                    *)

\* partitionTerms with the lists holding the addresses of the terms
RECURSIVE partitionTermsH(_, _, _, _)
partitionTermsH(h, p, part, negate) ==
    LET c == h[p]
    IN  CASE c.op = "opPlus" ->
                 partitionTermsH(h, c.kids[2],
                     partitionTermsH(h, c.kids[1], part, negate), negate)
          [] c.op = "opMinus" ->
                 partitionTermsH(h, c.kids[2],
                     partitionTermsH(h, c.kids[1], part, negate), ~negate)
          [] c.op = "opTypedExp" ->
                 partitionTermsH(h, c.kids[1], part, negate)
          [] c.op = "opAssignExp" ->
                 partitionTermsH(h, c.kids[1],
                     partitionTermsH(h, c.kids[1], part, negate), negate)
          [] c.op = "opIntConst" ->
                 [part EXCEPT !.integers =
                     Append(@, IF negate THEN NegW(c.val) ELSE c.val)]
          [] OTHER ->
                 IF negate
                   THEN [part EXCEPT !.negatives = Append(@, p)]
                   ELSE [part EXCEPT !.positives = Append(@, p)]

\* the cancelling loop on lists of addresses: **pp == **nn compares the
\* expressions pointed to
RECURSIVE CancelH(_, _, _, _, _)
CancelH(h, pos, neg, pp, nn) ==
    IF pp > Len(pos) THEN [positives |-> pos, negatives |-> neg]
    ELSE LET hits == {j \in nn .. Len(neg) :
                         Equals(ReadTree(h, pos[pp]), ReadTree(h, neg[j]))}
         IN  IF hits # {}
               THEN LET j == CHOOSE a \in hits : \A g \in hits : a <= g
                    IN  CancelH(h, Erase(pos, pp), Erase(neg, j), pp, j)
               ELSE CancelH(h, pos, neg, pp + 1, Len(neg) + 1)

\* new Const(k) and new Binary(op, a, b)
NewConst(h, k) == Alloc(h, ExpCell("Const", "opIntConst", k, <<>>, 0, 0))
NewBinary(h, op, a, b) == Alloc(h, ExpCell("Binary", op, 0, <<a, b>>, 0, 0))

\* Exp::Accumulate: every term is cloned, the Binary nodes are new
RECURSIVE AccumulateH(_, _)
AccumulateH(h, exprs) ==
    IF Len(exprs) = 0 THEN NewConst(h, 0)
    ELSE IF Len(exprs) = 1 THEN CloneH(h, exprs[1])
    ELSE LET k1 == CloneH(h, exprs[1])
             k2 == AccumulateH(k1.h, Tail(exprs))
         IN  NewBinary(k2.h, "opPlus", k1.p, k2.p)

\* p->simplifyArith(): the free store after the call and the pointer
\* returned.  Nothing is deleted.
RECURSIVE simplifyArithH(_, _)
simplifyArithH(h, p) ==
    LET c == h[p]
        both == LET r1 == simplifyArithH(h, c.kids[1])
                    r2 == simplifyArithH(r1.h, c.kids[2])
                IN  [h |-> [r2.h EXCEPT ![p].kids[1] = r1.p,
                                        ![p].kids[2] = r2.p],
                     p |-> p]
    IN  CASE c.cls \in {"Unary", "FlagDef", "TypedExp"} ->
                 IF c.op = "opMemOf" \/ c.op = "opRegOf"
                   THEN LET r == simplifyArithH(h, c.kids[1])
                        IN  Alloc(r.h, ExpCell("Unary", c.op, 0, <<r.p>>,
                                               0, 0))
                   ELSE [h |-> h, p |-> p]
          [] c.cls = "AssignExp" -> both
          [] c.cls \in {"Binary", "Ternary"} ->
                 IF c.op # "opPlus" /\ c.op # "opMinus" THEN both
                 ELSE LET part == partitionTermsH(h, p, EmptyPartition, FALSE)
                          cc   == CancelH(h, part.positives, part.negatives,
                                          1, 1)
                          sum  == SumInts(part.integers)
                          pos  == AccumulateH(h, cc.positives)
                          neg  == AccumulateH(h, cc.negatives)
                          negP == AccumulateH(pos.h, cc.negatives)
                      IN  IF Len(cc.positives) = 0
                            THEN IF Len(cc.negatives) = 0
                                   THEN NewConst(h, sum)
                                   ELSE LET k == NewConst(neg.h, sum)
                                        IN  NewBinary(k.h, "opMinus", k.p,
                                                      neg.p)
                          ELSE IF Len(cc.negatives) = 0
                            THEN IF sum = 0 THEN pos
                                 ELSE LET k == NewConst(pos.h, sum)
                                      IN  NewBinary(k.h, "opPlus", pos.p, k.p)
                          ELSE LET m == NewBinary(negP.h, "opMinus", pos.p,
                                                  negP.p)
                               IN  IF sum = 0 THEN m
                                   ELSE LET k == NewConst(m.h, sum)
                                        IN  NewBinary(k.h, "opPlus", m.p, k.p)
          [] OTHER -> [h |-> h, p |-> p]

\* the most calls made on one expression
MaxCalls == 2

OwnInput ==
    {Const(1), R0, Unary("opMemOf", R0),
     Unary("opMemOf", Binary("opPlus", R0, Const(1))),
     Binary("opPlus", R0, Const(1)),
     Binary("opPlus", Binary("opPlus", R0, Const(1)), Const(1)),
     Binary("opMinus", Binary("opPlus", R0, R1), R0),
     Binary("opMinus", Const(1), R0),
     Binary("opMinus", R0, R1),
     Binary("opPlus", Binary("opMinus", R0, R1), Const(1)),
     Binary("opPlus", TypedExp(1, R1), Const(1)),
     Binary("opMult", Binary("opPlus", Const(1), Const(1)), R1),
     Binary("opMult", Unary("opMemOf", R0), Const(2)),
     Unary("opNeg", Binary("opPlus", Const(1), Const(1))),
     Ternary("opTern", R0, Const(1), Const(0)),
     AssignExp(32, Unary("opMemOf", R0), Binary("opPlus", R0, Const(1))),
     AssignExp(32, R0, Const(1))}

\* the caller has built x; out lists the pointers it holds: x, and what
\* the calls returned
InitOwn ==
    /\ x \in OwnInput
    /\ heap = New(<<>>, x).h
    /\ xp = New(<<>>, x).p
    /\ yp = 0
    /\ out = <<New(<<>>, x).p>>
    /\ pc = "own"
    /\ passes = 0
    /\ y = None /\ z = None /\ res = None /\ first = None
    /\ bMod = FALSE /\ fatal = FALSE

\* yp = xp->clone()
OwnCloneStep ==
    /\ pc \in {"own", "ownCloned", "ownArith"}
    /\ passes < MaxCalls
    /\ \E r \in {CloneH(heap, xp)} :
          /\ heap' = r.h
          /\ yp' = r.p
          /\ out' = Append(out, r.p)
    /\ passes' = passes + 1
    /\ pc' = "ownCloned"
    /\ UNCHANGED <<x, y, z, res, bMod, first, fatal, xp>>

\* xp = xp->simplifyArith(); yp keeps the pointer the call was made on
OwnSimplifyArithStep ==
    /\ pc \in {"own", "ownCloned", "ownArith"}
    /\ passes < MaxCalls
    /\ \E r \in {simplifyArithH(heap, xp)} :
          /\ heap' = r.h
          /\ xp' = r.p
          /\ out' = Append(out, r.p)
    /\ yp' = xp
    /\ passes' = passes + 1
    /\ pc' = "ownArith"
    /\ UNCHANGED <<x, y, z, res, bMod, first, fatal>>

NextOwn == OwnCloneStep \/ OwnSimplifyArithStep

SpecOwn == InitOwn /\ [][NextOwn]_vars

-----------------------------------------------------------------------------
(* Claims about ownership *)

\* the live Exp objects
LiveNodes(h) == {p \in DOMAIN h : h[p].kind = "Exp" /\ h[p].live}

\* the places that hold the address q: child i of the live node p
Parents(h, q) ==
    {pi \in LiveNodes(h) \X (1 .. 3) :
        pi[2] \in DOMAIN h[pi[1]].kids /\ h[pi[1]].kids[pi[2]] = q}

\* the Exp objects of the expression at p
NodesAt(h, p) == {q \in Reach(h, p) : h[q].kind = "Exp"}

\* C27: after any sequence of clone and simplifyArith calls every live node
\* has at most one live parent, and the expression a call returns shares no
\* node with the expression it was called on unless it is that expression;
\* in particular simplifyArith on m[e] or r[e] returns no new node that
\* holds the e of the original.
C27_ExclusiveOwnership ==
    /\ \A q \in LiveNodes(heap) : Cardinality(Parents(heap, q)) <= 1
    /\ (pc = "ownArith" /\ xp # yp) =>
           NodesAt(heap, xp) \cap NodesAt(heap, yp) = {}
    /\ pc = "ownCloned" =>
           NodesAt(heap, xp) \cap NodesAt(heap, yp) = {}

\* C28: for every well-formed x without wildcards, no Plus or Mult node of
\* simplify(x) has an integer constant as its first child, also under m[]
\* and r[] and where the first child became a constant during the pass.
C28_ConstOnRight ==
    pc = "canonDone" =>
        \A n \in Nodes(res) :
            n.op \in {"opPlus", "opMult"} => n.kids[1].op # "opIntConst"

-----------------------------------------------------------------------------
(* deserialize reading a stream that serialize did not write *)

EndMark == <<FID_EXP_END, 0>>

\* well-formed records of leaves
GoodRecs ==
    {Serialize(l, <<>>) : l \in {Const(0), Const(FID_EXP_END),
                                 Terminal("opPC")}}

\* malformed records: a tag byte that is none of the eight ('X'), and a
\* Const whose op is opPlus, each with and without an end marker after it
BadRecs ==
    {h \o t : h \in {<<88, OperNum.opPC>>, <<Tag.Const, OperNum.opPlus>>},
              t \in {<<>>, EndMark}}

Recs == GoodRecs \cup BadRecs

\* a record, or the record of one node of each class around records
MalformedStreams ==
    Recs
    \cup {<<Tag.Unary, OperNum.opNeg>> \o a \o EndMark : a \in Recs}
    \cup {<<Tag.TypedExp, OperNum.opTypedExp, 1>> \o a \o EndMark :
              a \in Recs}
    \cup {<<Tag.FlagDef, OperNum.opFlagDef>> \o a \o <<1>> \o EndMark :
              a \in Recs}
    \cup {<<Tag.Binary, OperNum.opPlus>> \o a \o b \o EndMark :
              a, b \in Recs}
    \cup {<<Tag.AssignExp, OperNum.opAssignExp, 32>> \o a \o b \o EndMark :
              a, b \in Recs}
    \cup {<<Tag.Ternary, OperNum.opTern>> \o a \o b \o c \o EndMark :
              a, b, c \in Recs}

\* the stream is given; nothing was serialized
InitMalformed ==
    /\ \E s \in MalformedStreams :
          out = [buf |-> s, st |-> 0, len |-> Len(s), pos |-> 0]
    /\ pc = "serialized"
    /\ x = None /\ y = None /\ z = None /\ res = None /\ first = None
    /\ bMod = FALSE /\ passes = 0 /\ fatal = FALSE
    /\ heap = <<>> /\ xp = 0 /\ yp = 0

SpecMalformed == InitMalformed /\ [][DeserializeStep]_vars

\* every child pointer of e points to a node
RECURSIVE NullFree(_)
NullFree(e) ==
    e.cls # "null" /\ \A i \in DOMAIN e.kids : NullFree(e.kids[i])

\* C29: when deserialize returns from a stream with a malformed node, it
\* returns nothing (the record is dropped) or a tree in which every node
\* has all its children: no Unary, Binary, Ternary, Typed, Assign or FlagDef
\* node is built with a null child.
C29_NoMissingChild ==
    (pc = "deserialized" /\ ~fatal) => (res = NullExp \/ NullFree(res))

-----------------------------------------------------------------------------
(* print: the characters written to the stream, as a string *)

\* Const::print of an integer constant: the decimal digits
ConstPrint(e) == ToString(e.val)

\* Terminal::print
TerminalPrint(e) ==
    CASE e.op = "opPC"   -> "%pc"
      [] e.op = "opAFP"  -> "%afp"
      [] e.op = "opWild" -> "WILD"
      [] OTHER           -> ""

\* the switch of Binary::print on the ordinary infix operators
InfixSymbol(op) ==
    CASE op = "opPlus"      -> " + "
      [] op = "opMinus"     -> " - "
      [] op = "opMult"      -> " * "
      [] op = "opMults"     -> " *! "
      [] op = "opDiv"       -> " / "
      [] op = "opDivs"      -> " /! "
      [] op = "opMod"       -> " % "
      [] op = "opMods"      -> " %! "
      [] op = "opAnd"       -> " and "
      [] op = "opOr"        -> " or "
      [] op = "opBitAnd"    -> " & "
      [] op = "opBitOr"     -> " | "
      [] op = "opBitXor"    -> " ^ "
      [] op = "opEquals"    -> " = "
      [] op = "opNotEqual"  -> " ~= "
      [] op = "opLess"      -> " < "
      [] op = "opGtr"       -> " > "
      [] op = "opLessEq"    -> " <= "
      [] op = "opGtrEq"     -> " >= "
      [] op = "opLessUns"   -> " <=u "
      [] op = "opGtrUns"    -> " >u "
      [] op = "opLessEqUns" -> " <=u "
      [] op = "opGtrEqUns"  -> " >=u "
      [] op = "opShiftL"    -> " << "
      [] op = "opShiftR"    -> " >> "
      [] op = "opShiftRA"   -> " >>A "

RECURSIVE print(_)

\* Exp::printt of an expression that is no TypedExp
printt(e) == print(e)

\* Exp::printr, which Const, Terminal and Unary inherit
ExpPrintr(e) == print(e)

\* Binary::printr: parentheses around the node, except opSize and opList
BinaryPrintr(e) ==
    IF e.op \in {"opSize", "opList"} THEN print(e)
    ELSE "(" \o printt(e) \o ")"

\* p->printr(os)
printr(e) == IF e.cls = "Binary" THEN BinaryPrintr(e) ELSE ExpPrintr(e)

\* Unary::print of r[], m[], a[] and of the prefix operators
UnaryPrint(e) ==
    CASE e.op = "opRegOf"  -> "r[" \o print(e.kids[1]) \o "]"
      [] e.op = "opMemOf"  -> "m[" \o print(e.kids[1]) \o "]"
      [] e.op = "opAddrOf" -> "a[" \o print(e.kids[1]) \o "]"
      [] e.op = "opNot"    -> "~" \o printr(e.kids[1])
      [] e.op = "opLNot"   -> "L~" \o printr(e.kids[1])
      [] e.op = "opNeg"    -> "-" \o printr(e.kids[1])

\* Binary::print
BinaryPrint(e) ==
    LET p1 == e.kids[1]
        p2 == e.kids[2]
    IN  CASE e.op = "opSize" -> printr(p2) \o "{" \o printr(p1) \o "}"
          [] e.op = "opList" ->
                 print(p1) \o (IF p2.op # "opNil" THEN ", " ELSE "")
                           \o print(p2)
          [] OTHER -> printr(p1) \o InfixSymbol(e.op) \o printr(p2)

\* p->print(os): the virtual print of e's class
print(e) ==
    CASE e.cls = "Const"    -> ConstPrint(e)
      [] e.cls = "Terminal" -> TerminalPrint(e)
      [] e.cls = "Unary"    -> UnaryPrint(e)
      [] e.cls = "Binary"   -> BinaryPrint(e)

PrintKids ==
    {Const(0), Const(-1), Terminal("opPC"), R0, Unary("opNeg", R0),
     Binary("opPlus", R0, Const(1))}

\* two Binary nodes over printable children
InitPrint ==
    /\ \E o1, o2 \in SimpBinaryOps, a, b \in PrintKids :
          /\ x = Binary(o1, a, b)
          /\ \/ y = Binary(o2, a, b)
             \/ y = Binary(o2, b, a)
    /\ pc = "start"
    /\ out = <<>>
    /\ z = None /\ res = None /\ first = None
    /\ bMod = FALSE /\ passes = 0 /\ fatal = FALSE
    /\ heap = <<>> /\ xp = 0 /\ yp = 0

\* os << x and os << y, each on a stream of its own
PrintStep ==
    /\ pc = "start"
    /\ out' = [x |-> print(x), y |-> print(y)]
    /\ pc' = "printed"
    /\ UNCHANGED <<x, y, z, res, bMod, passes, first, fatal, heap, xp, yp>>

NextPrint == PrintStep

SpecPrint == InitPrint /\ [][NextPrint]_vars

\* C30: two Binary nodes with the same children and different infix ops
\* print as different strings; in particular unsigned less-than and unsigned
\* less-or-equal are printed with different operator symbols.
C30_PrintTellsOpsApart ==
    (pc = "printed" /\ x.kids = y.kids /\ x.op # y.op) => out.x # out.y

====
